---- MODULE Spec2Model ----
(***************************************************************************)
(* Model of cac_graphics: the generational slot allocator (cac_core        *)
(* gen_vec.rs) and the OpenGL context built on it (cac_context opengl.rs): *)
(* the typed resource pools, the bind-state cache and the draw dispatcher. *)
(*                                                                         *)
(* SpecGenVec drives one GenVec with insert and remove; SpecContext drives *)
(* one Context through its public operations and follows the native       *)
(* binds; SpecHistory drives the same operations and remembers a handle    *)
(* across resets.                                                          *)
(***************************************************************************)
EXTENDS Integers, Sequences, FiniteSets, TLC

VARIABLES
    storage,     \* the GenVec under test: [values, free]
    live,        \* history: the (handle, value) pairs insert returned whose slot
                 \* has not been removed or overwritten since
    dead,        \* history: issued handles whose slot was removed or overwritten
    kept,        \* history: the (handle, value) pairs insert returned whose
                 \* handle was never passed to remove
    last,        \* the last GenVec call: its name, the state of its handle
                 \* argument before the call, its return value
    peak,        \* history: the largest number of values the GenVec under test
                 \* held at the same time
    resources,   \* Context.resources: the five pools, each a GenVec
    state,       \* Context.state: the three cached bind handles
    calls,       \* the native calls the last Context operation issued, in order
    result,      \* the last Context operation or driver callback: its name,
                 \* handles and outcome
    current,     \* history: per bind slot, the object of the latest native bind
    old,         \* history: None before the first reset, then the handle (at
                 \* most one) a caller still holds from before a reset
    error_log,   \* Context.error_log: the buffered diagnostic messages
    polled,      \* what poll_errors returned, when it was the last operation
    arrived,     \* history: the diagnostic messages the driver reported since
                 \* the buffer was last emptied, in arrival order
    warnings,    \* history: the "error log filled" warnings logged since the
                 \* buffer was last emptied
    gl_context,  \* the native context handed to Context::new: whether its entry
                 \* points load, the version and the viewport it reports
    viewport,    \* Context.viewport
    objects      \* history: the native buffer and vertex array objects that were
                 \* generated and not deleted since, and whether a delete
                 \* named an object that was not among them

gvVars == <<storage, live, dead, kept, last, peak>>

ctxVars == <<resources, state, calls, result, current, old>>

logVars == <<error_log, polled, arrived, warnings>>

hostVars == <<gl_context, viewport, objects>>

vars == <<storage, live, dead, kept, last, peak, resources, state, calls, result, current, old,
          error_log, polled, arrived, warnings, gl_context, viewport, objects>>

(***************************************************************************)
(* Bounds of the model.                                                    *)
(***************************************************************************)
\* the GenVec under test takes at most MaxInserts insert calls
MaxInserts == 5
\* each pool of the Context holds at most MaxPool resources
MaxPool == 1

\* Option<T>: None is the empty sequence, Some(x) the one-element sequence
None == <<>>

Some(x) == <<x>>

\* the values stored in the GenVec under test (gen_vec.rs doc examples)
Vals == {"foo", "bar"}

(***************************************************************************)
(* gen_vec.rs                                                              *)
(***************************************************************************)
\* Handle { index, generation }: index is 0-based
Handle(index, generation) == [index |-> index, generation |-> generation]

\* Value { value: Option<V>, generation: u32 }
Value(value, generation) == [value |-> value, generation |-> generation]

\* GenVec::new / with_capacity: no slots, empty free list
new == [values |-> <<>>, free |-> <<>>]

\* Vec::get(index): the slot at a 0-based index, or None when out of range
VecGet(values, index) ==
    IF index >= 0 /\ index < Len(values) THEN Some(values[index + 1]) ELSE None

\* GenVec::get: values.get(index).filter(generation ==).and_then(value.as_ref())
get_unfiltered(gv, handle) ==
    LET r == VecGet(gv.values, handle.index)
    IN  IF r = None THEN None ELSE r[1].value

get(gv, handle) ==
    LET r == VecGet(gv.values, handle.index)
    IN  IF r = None THEN None
        ELSE IF r[1].generation # handle.generation THEN None
        ELSE r[1].value

\* GenVec::get_mut: the same chain over get_mut / as_mut; the result names the
\* value the returned reference points at
get_mut_unfiltered(gv, handle) ==
    LET r == VecGet(gv.values, handle.index)
    IN  IF r = None THEN None ELSE r[1].value

get_mut(gv, handle) ==
    LET r == VecGet(gv.values, handle.index)
    IN  IF r = None THEN None
        ELSE IF r[1].generation # handle.generation THEN None
        ELSE r[1].value

\* *storage.get_mut(handle)? = value: a write through the reference get_mut
\* returned, nothing when it returned None
Assign(gv, handle, value) ==
    IF get_mut(gv, handle) = None THEN gv
    ELSE [gv EXCEPT !.values[handle.index + 1].value = Some(value)]

\* the width of Value::generation and Handle::generation in the model; the
\* source's counter is a u32
GenerationBits == 3

\* u32::MAX at the model's width
GenerationMax == 2 ^ GenerationBits - 1

\* v.generation += 1 on a u32 in a build without overflow checks: wraps to 0
\* at the maximum
GenerationInc(generation) == (generation + 1) % (GenerationMax + 1)

\* GenVec::insert: pop an index off the free list and bump its generation, or
\* push a new slot of generation 0. Returns the new GenVec and the handle.
insert_keep_generation(gv, value) ==
    IF gv.free # <<>>
    THEN LET index == gv.free[Len(gv.free)]
             g == gv.values[index + 1].generation
         IN  [gv |-> [values |-> [gv.values EXCEPT ![index + 1] = Value(Some(value), g)],
                      free |-> SubSeq(gv.free, 1, Len(gv.free) - 1)],
              handle |-> Handle(index, g)]
    ELSE [gv |-> [values |-> Append(gv.values, Value(Some(value), 0)), free |-> gv.free],
          handle |-> Handle(Len(gv.values), 0)]

\* an insert that pushes a new slot whatever the free list holds
insert_always_grow(gv, value) ==
    [gv |-> [values |-> Append(gv.values, Value(Some(value), 0)), free |-> gv.free],
     handle |-> Handle(Len(gv.values), 0)]

insert(gv, value) ==
    IF gv.free # <<>>
    THEN LET index == gv.free[Len(gv.free)]
             g == GenerationInc(gv.values[index + 1].generation)
         IN  [gv |-> [values |-> [gv.values EXCEPT ![index + 1] = Value(Some(value), g)],
                      free |-> SubSeq(gv.free, 1, Len(gv.free) - 1)],
              handle |-> Handle(index, g)]
    ELSE [gv |-> [values |-> Append(gv.values, Value(Some(value), 0)), free |-> gv.free],
          handle |-> Handle(Len(gv.values), 0)]

\* GenVec::insert in a build with overflow checks: v.generation += 1 panics at
\* the maximum, after the index was popped off the free list and before the
\* slot is written
insert_checked(gv, value) ==
    IF gv.free # <<>> /\ gv.values[gv.free[Len(gv.free)] + 1].generation = GenerationMax
    THEN [gv |-> [gv EXCEPT !.free = SubSeq(gv.free, 1, Len(gv.free) - 1)],
          handle |-> None]
    ELSE [gv |-> insert(gv, value).gv, handle |-> Some(insert(gv, value).handle)]

\* GenVec::remove: when the slot exists and its generation matches, push the
\* index onto the free list and take the value (which may already be None).
\* Returns the new GenVec and the Option<V> the call returns.
remove(gv, handle) ==
    LET v == VecGet(gv.values, handle.index)
    IN  IF v = None THEN [gv |-> gv, ret |-> None]
        ELSE IF v[1].generation # handle.generation THEN [gv |-> gv, ret |-> None]
        ELSE [gv |-> [values |-> [gv.values EXCEPT ![handle.index + 1].value = None],
                      free |-> Append(gv.free, handle.index)],
              ret |-> v[1].value]

(***************************************************************************)
(* Numbers wider than TLC's integers: a usize or u32 value is kept as two  *)
(* limbs, hi * 65536 + lo.                                                 *)
(***************************************************************************)
Wide(hi, lo) == [hi |-> hi, lo |-> lo]

W(n) == Wide(n \div 65536, n % 65536)

\* usize * usize (data.len() * size_of::<T>()), k a small factor
WMul(w, k) == Wide(w.hi * k + (w.lo * k) \div 65536, (w.lo * k) % 65536)

\* try_into() to i32 (GLint, GLsizei): Some(value) iff value <= 2^31 - 1
TryIntoI32(w) ==
    IF w.hi < 32768 THEN Some(w.hi * 65536 + w.lo) ELSE None

\* try_into() to u32 (GLuint): Some iff value <= 2^32 - 1
TryIntoU32(w) ==
    IF w.hi < 65536 THEN Some(w) ELSE None

\* 2^31, the smallest value that does not convert to i32
TooBig == Wide(32768, 0)

(***************************************************************************)
(* opengl.rs and opengl/*.rs: native objects and the native call trace     *)
(***************************************************************************)
\* one call into the native layer (a gl:: entry point, or the render target
\* binder, which has no single gl:: call) and the object it names
Call(fn, obj) == [fn |-> fn, obj |-> obj, mode |-> "", first |-> 0, count |-> 0]

\* gl::DrawArrays(primitive.into(), start, count)
DrawCall(mode, first, count) ==
    [fn |-> "DrawArrays", obj |-> 0, mode |-> mode, first |-> first, count |-> count]

\* From<Primitive> for GLenum
PrimitiveInto(primitive) ==
    IF primitive = "Triangles" THEN "TRIANGLES" ELSE "TRIANGLE_STRIP"

\* the name gl::Gen* / gl::Create* hands out: the lowest name not in use (the
\* pool's objects are never removed one by one, so they hold names 1..len)
NextName(pool) == Len(pool.values) + 1

\* render_target::Native::new: copies viewport and clear colour, never fails
RenderTargetNew(render_target) ==
    [viewport |-> render_target.viewport, clear_color |-> render_target.clear_color]

\* render_target::Native::bind: converts x, y, width, height to i32 in turn and
\* then issues gl::Viewport and gl::Scissor; tag names the render target in
\* the trace (it has no native object). The trace shows the call of the binder
\* itself, then the gl:: calls it got to.
RenderTargetBind(rt, tag) ==
    IF \/ TryIntoI32(rt.viewport.x) = None
       \/ TryIntoI32(rt.viewport.y) = None
       \/ TryIntoI32(rt.viewport.width) = None
       \/ TryIntoI32(rt.viewport.height) = None
    THEN [calls |-> <<Call("RenderTargetBind", tag)>>, ret |-> "ConversionFailed"]
    ELSE [calls |-> <<Call("RenderTargetBind", tag), Call("Viewport", tag),
                      Call("Scissor", tag)>>,
          ret |-> "Ok"]

\* render_target::Native::set_viewport: stores the viewport, then
\* self.bind().unwrap(), which panics when the bind fails
set_viewport(rt, new_viewport, tag) ==
    LET rt1 == [rt EXCEPT !.viewport = new_viewport]
        b == RenderTargetBind(rt1, tag)
    IN  [value |-> rt1, calls |-> b.calls, ret |-> IF b.ret = "Ok" THEN "Ok" ELSE "panic"]

\* try_into() to GLsizeiptr, the size parameter of gl::BufferData: the native
\* 32-bit size ("buffer length into i32")
TryIntoGLsizeiptr(w) == TryIntoI32(w)

\* gl::BufferData(kind, size, data, usage) on the buffer id
BufferDataCall(id, size) ==
    [fn |-> "BufferData", obj |-> id, mode |-> "", first |-> 0, count |-> size]

\* a buffer::Native::new that uploads without converting the size: the low 31
\* bits reach gl::BufferData
BufferNew_unchecked(buffer, id) ==
    IF buffer.data = None
    THEN [calls |-> <<Call("GenBuffers", id)>>, ret |-> "Ok", value |-> Some([id |-> id])]
    ELSE LET size == WMul(buffer.data[1].len, buffer.data[1].size_of)
         IN  [calls |-> <<Call("GenBuffers", id), Call("BindBuffer", id),
                          BufferDataCall(id, (size.hi % 32768) * 65536 + size.lo)>>,
              ret |-> "Ok", value |-> Some([id |-> id])]

\* buffer::Native::new: gl::GenBuffers, then set_data when data is given; an
\* error drops the buffer (gl::DeleteBuffers). set_data converts the byte size
\* data.len() * size_of::<T>() and then issues gl::BindBuffer, gl::BufferData.
BufferNew(buffer, id) ==
    IF buffer.data = None
    THEN [calls |-> <<Call("GenBuffers", id)>>, ret |-> "Ok", value |-> Some([id |-> id])]
    ELSE LET size == TryIntoGLsizeiptr(WMul(buffer.data[1].len, buffer.data[1].size_of))
         IN  IF size = None
             THEN [calls |-> <<Call("GenBuffers", id), Call("DeleteBuffers", id)>>,
                   ret |-> "ConversionFailed", value |-> None]
             ELSE [calls |-> <<Call("GenBuffers", id), Call("BindBuffer", id),
                              BufferDataCall(id, size[1])>>,
                   ret |-> "Ok", value |-> Some([id |-> id])]

\* stage::Native::new: gl::CreateShader, then compile; an error drops the stage
\* (gl::DeleteShader). A source with an interior NUL fails before any
\* gl::ShaderSource call.
StageNew(stage, id) ==
    IF stage.source = "nul"
    THEN [calls |-> <<Call("CreateShader", id), Call("DeleteShader", id)>>,
          ret |-> "FailedToCompileShader", value |-> None]
    ELSE IF stage.source = "invalid"
    THEN [calls |-> <<Call("CreateShader", id), Call("CompileShader", id),
                      Call("DeleteShader", id)>>,
          ret |-> "FailedToCompileShader", value |-> None]
    ELSE [calls |-> <<Call("CreateShader", id), Call("CompileShader", id)>>,
          ret |-> "Ok", value |-> Some([id |-> id])]

\* shader::Native::new(shader, &stages): gl::CreateProgram, resolve every stage
\* handle (else ResourceNotFound), attach, link (else FailedToLinkShader); an
\* error drops the program (gl::DeleteProgram)
RECURSIVE AllResolve(_, _)
AllResolve(pool, handles) ==
    IF handles = <<>> THEN TRUE
    ELSE get(pool, handles[1]) # None /\ AllResolve(pool, Tail(handles))

ShaderNew(shader, stages, id) ==
    IF ~AllResolve(stages, shader.stages)
    THEN [calls |-> <<Call("CreateProgram", id), Call("DeleteProgram", id)>>,
          ret |-> "ResourceNotFound", value |-> None]
    ELSE IF ~shader.links
    THEN [calls |-> <<Call("CreateProgram", id), Call("LinkProgram", id),
                      Call("DeleteProgram", id)>>,
          ret |-> "FailedToLinkShader", value |-> None]
    ELSE [calls |-> <<Call("CreateProgram", id), Call("LinkProgram", id)>>,
          ret |-> "Ok", value |-> Some([id |-> id])]

\* shader::Native::bind: makes the program current
ShaderBind(s) == <<Call("UseProgram", s.id)>>

\* vertex_layout::Native::bind: gl::BindVertexArray(self.id)
LayoutBind(l) == <<Call("BindVertexArray", l.id)>>

\* vertex_layout::Native::set_attributes: per attribute set, per attribute,
\* convert local_offset and the set's index to GLuint, then describe the
\* attribute; the first failed conversion ends the walk
RECURSIVE SetAttributes(_, _)
SetAttributes(attributes, index) ==
    IF index > Len(attributes) THEN [calls |-> <<>>, ret |-> "Ok", what |-> ""]
    ELSE IF \E k \in 1..Len(attributes[index].attributes) :
                TryIntoU32(attributes[index].attributes[k].local_offset) = None
    THEN [calls |-> <<>>, ret |-> "ConversionFailed",
          what |-> "local attribute offset to GLuint"]
    ELSE LET rest == SetAttributes(attributes, index + 1)
             mine == [k \in 1..Len(attributes[index].attributes) |->
                          Call("VertexAttribFormat",
                               attributes[index].attributes[k].location)]
         IN  [calls |-> mine \o rest.calls, ret |-> rest.ret, what |-> rest.what]

\* gl::BindVertexBuffer(location, vbo.id, offset, stride)
BindVertexBufferCall(location, id, stride) ==
    [fn |-> "BindVertexBuffer", obj |-> id, mode |-> "", first |-> location, count |-> stride]

\* try_into() to GLintptr, the offset parameter of gl::BindVertexBuffer: the
\* native 32-bit width, as for GLsizeiptr
TryIntoGLintptr(w) == TryIntoI32(w)

\* set_buffers that passes over an attribute set whose buffer does not resolve
RECURSIVE SetBuffers_skip(_, _, _)
SetBuffers_skip(attributes, buffers, location) ==
    IF location > Len(attributes) THEN [calls |-> <<>>, ret |-> "Ok", what |-> ""]
    ELSE LET set == attributes[location]
         IN  IF set.buffer = None \/ get(buffers, set.buffer[1]) = None
             THEN SetBuffers_skip(attributes, buffers, location + 1)
             ELSE IF TryIntoGLintptr(set.offset) = None
             THEN [calls |-> <<>>, ret |-> "ConversionFailed", what |-> "buffer offset wraps"]
             ELSE IF TryIntoI32(set.stride) = None
             THEN [calls |-> <<>>, ret |-> "ConversionFailed", what |-> "buffer stride wraps"]
             ELSE LET rest == SetBuffers_skip(attributes, buffers, location + 1)
                      vbo == get(buffers, set.buffer[1])[1]
                  IN  [calls |-> <<BindVertexBufferCall(location - 1, vbo.id,
                                                        TryIntoI32(set.stride)[1])>>
                                 \o rest.calls,
                       ret |-> rest.ret, what |-> rest.what]

\* set_buffers that converts the stride and passes the offset on as it is
RECURSIVE SetBuffers_offset_unchecked(_, _, _)
SetBuffers_offset_unchecked(attributes, buffers, location) ==
    IF location > Len(attributes) THEN [calls |-> <<>>, ret |-> "Ok", what |-> ""]
    ELSE LET set == attributes[location]
         IN  IF set.buffer = None
             THEN SetBuffers_offset_unchecked(attributes, buffers, location + 1)
             ELSE IF get(buffers, set.buffer[1]) = None
             THEN [calls |-> <<>>, ret |-> "ResourceNotFound", what |-> ""]
             ELSE IF TryIntoI32(set.stride) = None
             THEN [calls |-> <<>>, ret |-> "ConversionFailed", what |-> "buffer stride wraps"]
             ELSE LET rest == SetBuffers_offset_unchecked(attributes, buffers, location + 1)
                      vbo == get(buffers, set.buffer[1])[1]
                  IN  [calls |-> <<BindVertexBufferCall(location - 1, vbo.id,
                                                        TryIntoI32(set.stride)[1])>>
                                 \o rest.calls,
                       ret |-> rest.ret, what |-> rest.what]

\* vertex_layout::Native::set_buffers: per attribute set that names a buffer,
\* resolve the handle (else ResourceNotFound), convert location, offset and
\* stride (else ConversionFailed with the name of the field), then
\* gl::BindVertexBuffer. The location is the index of the set in the slice
\* and always converts.
RECURSIVE SetBuffers(_, _, _)
SetBuffers(attributes, buffers, location) ==
    IF location > Len(attributes) THEN [calls |-> <<>>, ret |-> "Ok", what |-> ""]
    ELSE LET set == attributes[location]
         IN  IF set.buffer = None THEN SetBuffers(attributes, buffers, location + 1)
             ELSE IF get(buffers, set.buffer[1]) = None
             THEN [calls |-> <<>>, ret |-> "ResourceNotFound", what |-> ""]
             ELSE IF TryIntoGLintptr(set.offset) = None
             THEN [calls |-> <<>>, ret |-> "ConversionFailed", what |-> "buffer offset wraps"]
             ELSE IF TryIntoI32(set.stride) = None
             THEN [calls |-> <<>>, ret |-> "ConversionFailed", what |-> "buffer stride wraps"]
             ELSE LET rest == SetBuffers(attributes, buffers, location + 1)
                      vbo == get(buffers, set.buffer[1])[1]
                  IN  [calls |-> <<BindVertexBufferCall(location - 1, vbo.id,
                                                        TryIntoI32(set.stride)[1])>>
                                 \o rest.calls,
                       ret |-> rest.ret, what |-> rest.what]

\* vertex_layout::Native::new: gl::GenVertexArrays, bind, set_attributes,
\* set_buffers; an error drops the layout (gl::DeleteVertexArrays)
LayoutNew(layout, buffers, id) ==
    LET head == <<Call("GenVertexArrays", id), Call("BindVertexArray", id)>>
        a == SetAttributes(layout.attributes, 1)
        b == SetBuffers(layout.attributes, buffers, 1)
    IN  IF a.ret # "Ok"
        THEN [calls |-> head \o a.calls \o <<Call("DeleteVertexArrays", id)>>,
              ret |-> a.ret, what |-> a.what, value |-> None]
        ELSE IF b.ret # "Ok"
        THEN [calls |-> head \o a.calls \o b.calls \o <<Call("DeleteVertexArrays", id)>>,
              ret |-> b.ret, what |-> b.what, value |-> None]
        ELSE [calls |-> head \o a.calls \o b.calls, ret |-> "Ok", what |-> "",
              value |-> Some([id |-> id])]

\* Resources::with_capacity: five empty pools
ResourcesNew ==
    [buffers |-> new, layouts |-> new, stages |-> new, shaders |-> new,
     render_targets |-> new]

\* State::default: nothing bound
StateDefault ==
    [bound_layout |-> None, bound_shader |-> None, bound_render_target |-> None]

\* try_into() from GLint to u32: Some iff the value is not negative
GLintTryIntoU32(n) == IF n >= 0 THEN Some(W(n)) ELSE None

\* gl::Enable(DEBUG_OUTPUT), gl::DebugMessageCallback, gl::Enable(SCISSOR_TEST)
ContextNewCalls ==
    <<Call("Enable", 0), Call("DebugMessageCallback", 0), Call("Enable", 0)>>

\* a Context with a viewport of 800 by 600, whatever was read
ContextValue_fixed(data) ==
    [resources |-> ResourcesNew, state |-> StateDefault, error_log |-> <<>>,
     viewport |-> [x |-> W(0), y |-> W(0), width |-> W(800), height |-> W(600)]]

\* the Context a successful Context::new returns, around the viewport read
ContextValue(data) ==
    [resources |-> ResourcesNew, state |-> StateDefault, error_log |-> <<>>,
     viewport |-> [x |-> GLintTryIntoU32(data[1])[1], y |-> GLintTryIntoU32(data[2])[1],
                   width |-> GLintTryIntoU32(data[3])[1],
                   height |-> GLintTryIntoU32(data[4])[1]]]

\* a Context::new that takes any version
ContextNew_any_version(context) ==
    IF ~context.loaded
    THEN [calls |-> <<>>, ret |-> "InvalidContext", value |-> None]
    ELSE IF \E i \in 1..4 : GLintTryIntoU32(context.viewport[i]) = None
    THEN [calls |-> <<>>, ret |-> "ConversionFailed", value |-> None]
    ELSE [calls |-> ContextNewCalls, ret |-> "Ok",
          value |-> Some(ContextValue(context.viewport))]

\* Context::new: the entry points must have loaded and the version be 4.3 or
\* later (else InvalidContext); then the viewport is read and converted
ContextNew(context) ==
    IF ~context.loaded
    THEN [calls |-> <<>>, ret |-> "InvalidContext", value |-> None]
    ELSE IF context.major < 4 \/ (context.major = 4 /\ context.minor < 3)
    THEN [calls |-> <<>>, ret |-> "InvalidContext", value |-> None]
    ELSE IF \E i \in 1..4 : GLintTryIntoU32(context.viewport[i]) = None
    THEN [calls |-> <<>>, ret |-> "ConversionFailed", value |-> None]
    ELSE [calls |-> ContextNewCalls, ret |-> "Ok",
          value |-> Some(ContextValue(context.viewport))]

\* State::bind_render_target
bind_render_target(st, res, render_rarget) ==
    IF st.bound_render_target # Some(render_rarget)
    THEN LET st1 == [st EXCEPT !.bound_render_target = Some(render_rarget)]
             rt == get_mut(res.render_targets, render_rarget)
         IN  IF rt # None
             THEN LET b == RenderTargetBind(rt[1], render_rarget.index)
                  IN  [state |-> st1, calls |-> b.calls, ret |-> b.ret]
             ELSE [state |-> st1, calls |-> <<>>, ret |-> "ResourceNotFound"]
    ELSE [state |-> st, calls |-> <<>>, ret |-> "Ok"]

\* a reset that leaves the bind state as it is
reset_keep(st) == st

\* State::reset

reset(st) == StateDefault

\* a bind_shader that binds whatever the cache records
bind_shader_uncached(st, res, shader) ==
    LET st1 == [st EXCEPT !.bound_shader = Some(shader)]
        s == get_mut(res.shaders, shader)
    IN  IF s # None
        THEN [state |-> st1, calls |-> ShaderBind(s[1]), ret |-> "Ok"]
        ELSE [state |-> st1, calls |-> <<>>, ret |-> "ResourceNotFound"]

\* State::bind_shader
bind_shader(st, res, shader) ==
    IF st.bound_shader # Some(shader)
    THEN LET st1 == [st EXCEPT !.bound_shader = Some(shader)]
             s == get_mut(res.shaders, shader)
         IN  IF s # None
             THEN [state |-> st1, calls |-> ShaderBind(s[1]), ret |-> "Ok"]
             ELSE [state |-> st1, calls |-> <<>>, ret |-> "ResourceNotFound"]
    ELSE [state |-> st, calls |-> <<>>, ret |-> "Ok"]

\* State::bind_layout
bind_layout(st, res, layout) ==
    IF st.bound_layout # Some(layout)
    THEN LET st1 == [st EXCEPT !.bound_layout = Some(layout)]
             l == get_mut(res.layouts, layout)
         IN  IF l # None
             THEN [state |-> st1, calls |-> LayoutBind(l[1]), ret |-> "Ok"]
             ELSE [state |-> st1, calls |-> <<>>, ret |-> "ResourceNotFound"]
    ELSE [state |-> st, calls |-> <<>>, ret |-> "Ok"]

\* a bind_draw_state that binds the shader first
bind_draw_state_shader_first(st, res, render_rarget, layout, shader) ==
    LET s == bind_shader(st, res, shader)
    IN  IF s.ret # "Ok" THEN s
        ELSE LET r == bind_render_target(s.state, res, render_rarget)
             IN  IF r.ret # "Ok"
                 THEN [state |-> r.state, calls |-> s.calls \o r.calls, ret |-> r.ret]
                 ELSE LET l == bind_layout(r.state, res, layout)
                      IN  [state |-> l.state, calls |-> s.calls \o r.calls \o l.calls,
                           ret |-> l.ret]

\* a bind_draw_state that restores the bind state when a bind fails
bind_draw_state_rollback(st, res, render_rarget, layout, shader) ==
    LET r == bind_render_target(st, res, render_rarget)
    IN  IF r.ret # "Ok" THEN [r EXCEPT !.state = st]
        ELSE LET l == bind_layout(r.state, res, layout)
             IN  IF l.ret # "Ok"
                 THEN [state |-> st, calls |-> r.calls \o l.calls, ret |-> l.ret]
                 ELSE LET s == bind_shader(l.state, res, shader)
                      IN  [state |-> IF s.ret # "Ok" THEN st ELSE s.state,
                           calls |-> r.calls \o l.calls \o s.calls, ret |-> s.ret]

\* State::bind_draw_state: render target, then layout, then shader, each ?
bind_draw_state(st, res, render_rarget, layout, shader) ==
    LET r == bind_render_target(st, res, render_rarget)
    IN  IF r.ret # "Ok" THEN r
        ELSE LET l == bind_layout(r.state, res, layout)
             IN  IF l.ret # "Ok"
                 THEN [state |-> l.state, calls |-> r.calls \o l.calls, ret |-> l.ret]
                 ELSE LET s == bind_shader(l.state, res, shader)
                      IN  [state |-> s.state, calls |-> r.calls \o l.calls \o s.calls,
                           ret |-> s.ret]

\* Context::draw: bind_draw_state?, convert start and count to i32, then
\* gl::DrawArrays
draw(st, res, render_rarget, primitive, shader, layout, start, count) ==
    LET b == bind_draw_state(st, res, render_rarget, layout, shader)
    IN  IF b.ret # "Ok" THEN b
        ELSE IF TryIntoI32(start) = None \/ TryIntoI32(count) = None
        THEN [state |-> b.state, calls |-> b.calls, ret |-> "ConversionFailed"]
        ELSE [state |-> b.state,
              calls |-> Append(b.calls, DrawCall(PrimitiveInto(primitive),
                                                 TryIntoI32(start)[1], TryIntoI32(count)[1])),
              ret |-> "Ok"]

\* Context::create_render_target: Native::new, insert
create_render_target(res, render_target) ==
    LET r == insert(res.render_targets, RenderTargetNew(render_target))
    IN  [resources |-> [res EXCEPT !.render_targets = r.gv], calls |-> <<>>,
         ret |-> "Ok", handle |-> Some(r.handle)]

\* a create_* that inserts although the native constructor failed
create_insert_on_error(res, pool, made) ==
    LET r == insert(res[pool], [id |-> NextName(res[pool])])
    IN  [resources |-> [res EXCEPT ![pool] = r.gv], calls |-> made.calls,
         ret |-> made.ret, handle |-> IF made.ret = "Ok" THEN Some(r.handle) ELSE None]

\* the shape create_buffer, create_stage and create_shader share:
\* let x = Native::new(..)?; Ok(pool.insert(x))
create_or_error(res, pool, made) ==
    IF made.ret # "Ok"
    THEN [resources |-> res, calls |-> made.calls, ret |-> made.ret, handle |-> None]
    ELSE LET r == insert(res[pool], made.value[1])
         IN  [resources |-> [res EXCEPT ![pool] = r.gv], calls |-> made.calls,
              ret |-> "Ok", handle |-> Some(r.handle)]

\* Context::create_buffer
create_buffer(res, buffer) ==
    create_or_error(res, "buffers", BufferNew(buffer, NextName(res.buffers)))

\* Context::create_stage
create_stage(res, shader) ==
    create_or_error(res, "stages", StageNew(shader, NextName(res.stages)))

\* Context::create_shader
create_shader(res, shader) ==
    create_or_error(res, "shaders", ShaderNew(shader, res.stages, NextName(res.shaders)))

\* Context::create_layout: Native::new?, insert, then state.bind_layout?
create_layout(st, res, layout) ==
    LET made == LayoutNew(layout, res.buffers, NextName(res.layouts))
    IN  IF made.ret # "Ok"
        THEN [resources |-> res, state |-> st, calls |-> made.calls, ret |-> made.ret,
              what |-> made.what, handle |-> None]
        ELSE LET r == insert(res.layouts, made.value[1])
                 res1 == [res EXCEPT !.layouts = r.gv]
                 b == bind_layout(st, res1, r.handle)
             IN  [resources |-> res1, state |-> b.state, calls |-> made.calls \o b.calls,
                  ret |-> b.ret, what |-> "",
                  handle |-> IF b.ret = "Ok" THEN Some(r.handle) ELSE None]

\* Context::render_target_mut, layout_mut, shader_mut: bind, and on Ok get_mut
lookup_mut(bound, pool, handle) ==
    IF bound.ret = "Ok" THEN get_mut(pool, handle) ELSE None

(***************************************************************************)
(* The GenVec under test, driven by insert and remove.                     *)
(***************************************************************************)
\* the handles a caller can hold: every index up to one past the longest slot
\* vector, every generation the inserts can reach
GvHandles == {Handle(i, g) : i \in 0..MaxInserts, g \in 0..(MaxInserts - 1)}

\* the number of insert calls a GenVec has taken: a slot of generation g has
\* been filled g + 1 times
RECURSIVE Inserts(_)
Inserts(values) ==
    IF values = <<>> THEN 0
    ELSE values[1].generation + 1 + Inserts(Tail(values))

\* what a handle is to a GenVec: out of range, of a stale generation, of the
\* slot's generation with the value already taken, or valid
HandleState(gv, handle) ==
    IF ~(handle.index < Len(gv.values)) THEN "out_of_range"
    ELSE IF gv.values[handle.index + 1].generation # handle.generation THEN "stale"
    ELSE IF gv.values[handle.index + 1].value = None THEN "removed"
    ELSE "valid"

\* the GenVec under test before its first call
GvIdle ==
    /\ storage = new
    /\ live = {}
    /\ dead = {}
    /\ kept = {}
    /\ last = [op |-> "new", arg |-> "none", ret |-> None]
    /\ peak = 0

\* no Context exists
CtxIdle ==
    /\ resources = <<>>
    /\ state = <<>>
    /\ calls = <<>>
    /\ result = <<>>
    /\ current = <<>>
    /\ old = <<>>
    /\ error_log = <<>>
    /\ polled = <<>>
    /\ arrived = <<>>
    /\ warnings = 0
    /\ gl_context = <<>>
    /\ viewport = <<>>
    /\ objects = <<>>

GvInit == GvIdle /\ CtxIdle

\* the number of values a GenVec holds: its slots with Some value
Occupied(gv) == Cardinality({i \in 1..Len(gv.values) : gv.values[i].value # None})

\* the larger of two numbers
Max(a, b) == IF a >= b THEN a ELSE b

\* the issued pairs whose handle names slot index
AtIndex(pairs, index) == {e \in pairs : e.h.index = index}

\* storage.insert(value)
Insert(value) ==
    /\ Inserts(storage.values) < MaxInserts
    /\ LET r == insert(storage, value)
           over == AtIndex(live, r.handle.index)
       IN  /\ storage' = r.gv
           \* every handle issued earlier for this index has been overwritten
           /\ live' = (live \ over) \cup {[h |-> r.handle, v |-> value]}
           /\ dead' = dead \cup {e.h : e \in over}
           /\ kept' = kept \cup {[h |-> r.handle, v |-> value]}
           /\ last' = [op |-> "insert", arg |-> "none", ret |-> Some(r.handle)]
           /\ peak' = Max(peak, Occupied(r.gv))
    /\ UNCHANGED ctxVars
    /\ UNCHANGED <<logVars, hostVars>>

\* storage.remove(handle)
Remove(handle) ==
    \* a free list longer than the inserts left is never popped to its end
    /\ Len(storage.free) <= MaxInserts - Inserts(storage.values)
    /\ LET r == remove(storage, handle)
           slot == VecGet(storage.values, handle.index)
           hit == slot # None /\ slot[1].generation = handle.generation
           gone == IF hit THEN AtIndex(live, handle.index) ELSE {}
       IN  /\ storage' = r.gv
           \* the slot of the handles issued for this index was removed
           /\ live' = live \ gone
           /\ dead' = dead \cup {e.h : e \in gone}
           /\ kept' = {e \in kept : e.h # handle}
           /\ last' = [op |-> "remove", arg |-> HandleState(storage, handle), ret |-> r.ret]
           /\ peak' = peak
    /\ UNCHANGED ctxVars
    /\ UNCHANGED <<logVars, hostVars>>

\* the issued pairs, with value stored under handle
Stored(pairs, handle, value) ==
    {IF e.h = handle THEN [h |-> handle, v |-> value] ELSE e : e \in pairs}

\* if let Some(v) = storage.get_mut(handle) { *v = value }
GetMut(handle, value) ==
    /\ LET r == get_mut(storage, handle)
       IN  /\ storage' = Assign(storage, handle, value)
           /\ live' = IF r = None THEN live ELSE Stored(live, handle, value)
           /\ kept' = IF r = None THEN kept ELSE Stored(kept, handle, value)
           /\ last' = [op |-> "get_mut", arg |-> HandleState(storage, handle),
                       ret |-> IF r = None THEN None
                               ELSE Some([handle |-> handle, from |-> r[1], to |-> value])]
    /\ UNCHANGED <<dead, peak>>
    /\ UNCHANGED ctxVars
    /\ UNCHANGED <<logVars, hostVars>>

GvNext ==
    \/ \E value \in Vals : Insert(value)
    \/ \E handle \in GvHandles : Remove(handle)
    \/ \E handle \in GvHandles, value \in Vals : GetMut(handle, value)

SpecGenVec == GvInit /\ [][GvNext]_vars

(***************************************************************************)
(* The GenVec with a slot whose generation counter is about to reach its   *)
(* maximum.                                                                *)
(***************************************************************************)
\* the slot vector takes at most MaxWrapSlots slots
MaxWrapSlots == 2
\* the free list takes at most MaxWrapFree indices
MaxWrapFree == 2
\* the GenVec takes at most MaxWrapInserts insert calls
MaxWrapInserts == 4

\* the number of insert calls the GenVec has taken since WrapIdle: slot 0 was
\* refilled once for each step of its counter from GenerationMax - 1 on, a
\* further slot was filled once more than its generation
RECURSIVE WrapInserts(_)
WrapInserts(values) ==
    IF Len(values) = 1 THEN (values[1].generation + 2) % (GenerationMax + 1)
    ELSE values[Len(values)].generation + 1
             + WrapInserts(SubSeq(values, 1, Len(values) - 1))

\* the handles a caller can hold: every generation of the counter
WrapHandles == {Handle(i, g) : i \in 0..(MaxWrapSlots - 1), g \in 0..GenerationMax}

\* a GenVec after GenerationMax inserts that were each removed again: slot 0
\* is empty and free, one insert below the maximum of its counter, and every
\* handle issued for it is invalid
WrapIdle ==
    /\ storage = [values |-> <<Value(None, GenerationMax - 1)>>, free |-> <<0>>]
    /\ live = {}
    /\ dead = {Handle(0, g) : g \in 0..(GenerationMax - 1)}
    /\ kept = {}
    /\ last = [op |-> "remove", arg |-> "valid", ret |-> Some("foo")]
    /\ peak = 1

WrapInit == WrapIdle /\ CtxIdle

\* storage.insert(value), in a build with or without overflow checks
WrapInsert(value, overflow_checks) ==
    /\ last.op # "insert_panic"
    /\ storage.free # <<>> \/ Len(storage.values) < MaxWrapSlots
    /\ WrapInserts(storage.values) < MaxWrapInserts
    /\ LET r == IF overflow_checks THEN insert_checked(storage, value)
                ELSE [gv |-> insert(storage, value).gv,
                      handle |-> Some(insert(storage, value).handle)]
       IN  /\ storage' = r.gv
           /\ IF r.handle = None
              THEN /\ last' = [op |-> "insert_panic", arg |-> "none", ret |-> None]
                   /\ UNCHANGED <<live, dead, kept, peak>>
              ELSE LET over == AtIndex(live, r.handle[1].index)
                   IN  /\ live' = (live \ over) \cup {[h |-> r.handle[1], v |-> value]}
                       /\ dead' = dead \cup {e.h : e \in over}
                       /\ kept' = kept \cup {[h |-> r.handle[1], v |-> value]}
                       /\ last' = [op |-> "insert", arg |-> "none", ret |-> r.handle]
                       /\ peak' = Max(peak, Occupied(r.gv))
    /\ UNCHANGED ctxVars
    /\ UNCHANGED <<logVars, hostVars>>

\* storage.remove(handle)
WrapRemove(handle) ==
    /\ last.op # "insert_panic"
    /\ Len(storage.free) < MaxWrapFree
    /\ LET r == remove(storage, handle)
           slot == VecGet(storage.values, handle.index)
           hit == slot # None /\ slot[1].generation = handle.generation
           gone == IF hit THEN AtIndex(live, handle.index) ELSE {}
       IN  /\ storage' = r.gv
           /\ live' = live \ gone
           /\ dead' = dead \cup {e.h : e \in gone}
           /\ kept' = {e \in kept : e.h # handle}
           /\ last' = [op |-> "remove", arg |-> HandleState(storage, handle), ret |-> r.ret]
           /\ peak' = peak
    /\ UNCHANGED ctxVars
    /\ UNCHANGED <<logVars, hostVars>>

WrapNext ==
    \/ \E value \in Vals, overflow_checks \in BOOLEAN : WrapInsert(value, overflow_checks)
    \/ \E handle \in WrapHandles : WrapRemove(handle)

SpecWrap == WrapInit /\ [][WrapNext]_vars

(***************************************************************************)
(* The Context, driven through its public operations.                      *)
(***************************************************************************)
\* the handles of one kind a caller can hold: one per slot a pool can have,
\* and one of another generation (issued by another GenVec of the same key)
CtxHandles == {Handle(i, 0) : i \in 0..(MaxPool - 1)} \cup {Handle(0, 1)}

Viewports ==
    {[x |-> W(0), y |-> W(0), width |-> W(800), height |-> W(600)],
     [x |-> W(0), y |-> W(0), width |-> TooBig, height |-> W(600)]}

\* RenderTarget descriptions
RenderTargets == {[viewport |-> v, clear_color |-> None] : v \in Viewports}

\* Buffer descriptions: no data, 3 f32, 2^29 f32 (2^31 bytes)
Buffers ==
    {[data |-> None],
     [data |-> Some([len |-> W(3), size_of |-> 4])],
     [data |-> Some([len |-> Wide(8192, 0), size_of |-> 4])]}

\* shader::Stage descriptions: a source that compiles, one that does not, one
\* with an interior NUL
Stages == {[kind |-> "Vertex", source |-> s] : s \in {"valid", "invalid", "nul"}}

\* shader::Shader descriptions: the stage handles, and whether the driver links
Shaders == {[stages |-> <<h>>, links |-> l] : h \in CtxHandles, l \in BOOLEAN}

\* VertexLayout descriptions: one attribute set of one attribute
Layouts ==
    {[attributes |-> <<[attributes |-> <<[location |-> 0, local_offset |-> W(0)]>>,
                        buffer |-> b, offset |-> W(0), stride |-> s]>>] :
        b \in {None} \cup {Some(h) : h \in CtxHandles}, s \in {W(12), TooBig}}

\* 2^31 - 1, the largest value that converts to i32
Fits == Wide(32767, 65535)

\* the primitive, start and count of a draw
Ranges ==
    {[primitive |-> "Triangles", start |-> W(0), count |-> W(3)],
     [primitive |-> "TriangleStrip", start |-> W(1), count |-> Fits],
     [primitive |-> "TriangleStrip", start |-> W(0), count |-> TooBig],
     [primitive |-> "Triangles", start |-> TooBig, count |-> W(3)]}

\* the draw of the runs that follow handles across resets
HistRanges == {[primitive |-> "Triangles", start |-> W(0), count |-> W(3)]}

Pools == {"buffers", "layouts", "stages", "shaders", "render_targets"}

\* the record of an operation: its outcome, the handle a create_* returned,
\* the handles it was called with and its other input (the description given to
\* a create_*, the primitive, start and count given to draw), and the text a
\* ConversionFailed of create_layout carries
Result(op, ret) ==
    [op |-> op, ret |-> ret, made |-> None, target |-> None, layout |-> None,
     shader |-> None, arg |-> None, input |-> None, what |-> ""]

\* the object of the latest native bind of each slot after a call sequence
\* (a deleted object is no longer current), and whether the sequence bound an
\* object that was current already
RECURSIVE Track(_, _)
Track(cur, cs) ==
    IF cs = <<>> THEN cur
    ELSE LET c == cs[1]
             slot == IF c.fn = "RenderTargetBind" THEN Some("render_target")
                     ELSE IF c.fn = "BindVertexArray" THEN Some("layout")
                     ELSE IF c.fn = "UseProgram" THEN Some("shader")
                     ELSE None
             next ==
                 IF slot # None
                 THEN [cur EXCEPT ![slot[1]] = Some(c.obj),
                                  !.repeated = cur.repeated \/ cur[slot[1]] = Some(c.obj)]
                 ELSE IF c.fn = "DeleteVertexArrays" /\ cur.layout = Some(c.obj)
                 THEN [cur EXCEPT !.layout = None]
                 ELSE IF c.fn = "DeleteProgram" /\ cur.shader = Some(c.obj)
                 THEN [cur EXCEPT !.shader = None]
                 ELSE cur
         IN  Track(next, Tail(cs))

\* the handles that resolve in a pool
Resolving(pool) ==
    {Handle(i - 1, pool.values[i].generation) :
        i \in {k \in 1..Len(pool.values) : pool.values[k].value # None}}

\* a Drop that deletes nothing
Drops_none(pool, fn) == <<>>

\* Drop of a pool's native objects, in slot order
Drops(pool, fn) == [i \in 1..Len(pool.values) |-> Call(fn, pool.values[i].value[1].id)]

\* a native context in which nothing was generated
NoObjects == [alive |-> {}, stray |-> FALSE]

\* the native objects after a call sequence: gl::GenBuffers and
\* gl::GenVertexArrays add an object, gl::DeleteBuffers and
\* gl::DeleteVertexArrays take it away
RECURSIVE Native(_, _)
Native(objs, cs) ==
    IF cs = <<>> THEN objs
    ELSE LET c == cs[1]
             kind == IF c.fn \in {"GenBuffers", "DeleteBuffers"} THEN "buffer" ELSE "layout"
             o == [kind |-> kind, id |-> c.obj]
         IN  IF c.fn \in {"GenBuffers", "GenVertexArrays"}
             THEN Native([objs EXCEPT !.alive = @ \cup {o}], Tail(cs))
             ELSE IF c.fn \in {"DeleteBuffers", "DeleteVertexArrays"}
             THEN Native([alive |-> objs.alive \ {o},
                          stray |-> objs.stray \/ o \notin objs.alive], Tail(cs))
             ELSE Native(objs, Tail(cs))

\* a native context of version 4.3 in a window of 800 by 600
Window == [loaded |-> TRUE, major |-> 4, minor |-> 3, viewport |-> <<0, 0, 800, 600>>]

\* Context::new(Window): empty pools, nothing bound
CtxNew ==
    /\ resources = ContextNew(Window).value[1].resources
    /\ state = ContextNew(Window).value[1].state
    /\ calls = ContextNew(Window).calls
    /\ result = Result("new", "Ok")
    /\ current = [render_target |-> None, layout |-> None, shader |-> None,
                  repeated |-> FALSE]
    /\ old = None
    /\ error_log = ContextNew(Window).value[1].error_log
    /\ polled = None
    /\ arrived = <<>>
    /\ warnings = 0
    /\ gl_context = Window
    /\ viewport = ContextNew(Window).value[1].viewport
    /\ objects = NoObjects

CtxInit == GvIdle /\ CtxNew

\* a reset that leaves the diagnostics buffer as it is
error_log_keep(log) == log

\* self.error_log.clear() of Context::reset
error_log_clear(log) == <<>>

\* Context::reset: resources.clear(), state.reset(), error_log.clear()
Reset ==
    /\ resources' = ResourcesNew
    /\ state' = reset(state)
    /\ calls' = Drops(resources.buffers, "DeleteBuffers")
                \o Drops(resources.layouts, "DeleteVertexArrays")
                \o Drops(resources.stages, "DeleteShader")
                \o Drops(resources.shaders, "DeleteProgram")
    /\ result' = Result("reset", "Ok")
    /\ error_log' = error_log_clear(error_log)
    /\ objects' = Native(objects, calls')
    /\ UNCHANGED <<gvVars, gl_context, viewport>>

\* Context::draw
Draw(target, primitive, shader, layout, start, count) ==
    /\ LET r == draw(state, resources, target, primitive, shader, layout, start, count)
       IN  /\ state' = r.state
           /\ calls' = r.calls
           /\ result' = [Result("draw", r.ret) EXCEPT !.target = Some(target),
                             !.layout = Some(layout), !.shader = Some(shader),
                             !.input = Some([primitive |-> primitive, start |-> start,
                                             count |-> count])]
    /\ UNCHANGED resources
    /\ UNCHANGED <<gvVars, hostVars, error_log>>

\* a create_* outcome becomes the next state; a pool is filled up to MaxPool
Created(op, pool, r, st, input) ==
    /\ Len(r.resources[pool].values) <= MaxPool
    /\ resources' = r.resources
    /\ state' = st
    /\ calls' = r.calls
    /\ result' = [Result(op, r.ret) EXCEPT !.made = r.handle, !.input = Some(input),
                      !.what = IF "what" \in DOMAIN r THEN r.what ELSE ""]
    /\ objects' = Native(objects, calls')
    /\ UNCHANGED <<gvVars, gl_context, viewport, error_log>>

CreateRenderTarget(render_target) ==
    Created("create_render_target", "render_targets",
            create_render_target(resources, render_target), state, render_target)

CreateBuffer(buffer) ==
    Created("create_buffer", "buffers", create_buffer(resources, buffer), state, buffer)

CreateStage(shader) ==
    Created("create_stage", "stages", create_stage(resources, shader), state, shader)

CreateShader(shader) ==
    Created("create_shader", "shaders", create_shader(resources, shader), state, shader)

CreateLayout(layout) ==
    LET r == create_layout(state, resources, layout)
    IN  Created("create_layout", "layouts", r, r.state, layout)

\* a lookup that records the handle as the bound shader
Lookup_caching(op, pool, handle) ==
    /\ result' = [Result(op, IF get(resources[pool], handle) # None THEN "Some" ELSE "None")
                     EXCEPT !.arg = Some(handle)]
    /\ calls' = <<>>
    /\ state' = [state EXCEPT !.bound_shader = Some(handle)]
    /\ UNCHANGED resources
    /\ UNCHANGED <<gvVars, hostVars, error_log>>

\* Context::render_target, buffer, layout, stage, shader: a plain pool lookup
Lookup(op, pool, handle) ==
    /\ result' = [Result(op, IF get(resources[pool], handle) # None THEN "Some" ELSE "None")
                     EXCEPT !.arg = Some(handle)]
    /\ calls' = <<>>
    /\ UNCHANGED <<resources, state>>
    /\ UNCHANGED <<gvVars, hostVars, error_log>>

\* Context::buffer_mut: get_mut on the pool
BufferMut(handle) ==
    /\ result' = [Result("buffer_mut", IF get_mut(resources.buffers, handle) # None
                                          THEN "Some" ELSE "None")
                     EXCEPT !.arg = Some(handle)]
    /\ calls' = <<>>
    /\ UNCHANGED <<resources, state>>
    /\ UNCHANGED <<gvVars, hostVars, error_log>>

\* Context::render_target_mut, layout_mut, shader_mut: bind, then get_mut
LookupMut(op, pool, handle, bound) ==
    /\ state' = bound.state
    /\ calls' = bound.calls
    /\ result' = [Result(op, IF lookup_mut(bound, resources[pool], handle) # None
                            THEN "Some" ELSE "None")
                     EXCEPT !.arg = Some(handle)]
    /\ UNCHANGED resources
    /\ UNCHANGED <<gvVars, hostVars, error_log>>

RenderTargetMut(handle) ==
    LookupMut("render_target_mut", "render_targets", handle,
              bind_render_target(state, resources, handle))

LayoutMut(handle) ==
    LookupMut("layout_mut", "layouts", handle, bind_layout(state, resources, handle))

ShaderMut(handle) ==
    LookupMut("shader_mut", "shaders", handle, bind_shader(state, resources, handle))

\* the objects current in the native context after the step: a reset destroys
\* every object
Currents ==
    IF result'.op = "reset"
    THEN [render_target |-> None, layout |-> None, shader |-> None, repeated |-> FALSE]
    ELSE Track([current EXCEPT !.repeated = FALSE], calls')

\* the trace of native binds is followed; resets are not remembered
Follow == current' = Currents /\ UNCHANGED <<old, polled, arrived, warnings>>

\* the bind slot of a pool's handles, None for buffers and stages
Slot(pool) ==
    IF pool = "render_targets" THEN Some("bound_render_target")
    ELSE IF pool = "layouts" THEN Some("bound_layout")
    ELSE IF pool = "shaders" THEN Some("bound_shader")
    ELSE None

\* a handle a caller holds across a reset, and whether the bind state recorded
\* it when the reset came
Held(pool, h) ==
    [pool |-> pool, h |-> h,
     bound |-> Slot(pool) # None /\ state[Slot(pool)[1]] = Some(h)]

\* what a caller may still hold after the step: at a reset, the handle held
\* so far or one of the handles that resolved before the reset
Olds ==
    IF result'.op = "reset"
    THEN {Some(k) : k \in {IF old = None THEN {} ELSE old[1]}
                         \cup UNION {{{Held(p, h)} : h \in Resolving(resources[p])} :
                                         p \in Pools}}
    ELSE {old}

\* the resets are remembered; the trace of native binds is not followed
Remember == old' \in Olds /\ UNCHANGED <<current, polled, arrived, warnings>>

\* the public operations of the Context
CtxNext ==
    \/ Reset /\ Follow
    \/ \E t \in CtxHandles, s \in CtxHandles, l \in CtxHandles, r \in Ranges :
          Draw(t, r.primitive, s, l, r.start, r.count) /\ Follow
    \/ \E d \in RenderTargets : CreateRenderTarget(d) /\ Follow
    \/ \E d \in Buffers : CreateBuffer(d) /\ Follow
    \/ \E d \in Stages : CreateStage(d) /\ Follow
    \/ \E d \in Shaders : CreateShader(d) /\ Follow
    \/ \E d \in Layouts : CreateLayout(d) /\ Follow
    \/ \E h \in CtxHandles : Lookup("render_target", "render_targets", h) /\ Follow
    \/ \E h \in CtxHandles : Lookup("buffer", "buffers", h) /\ Follow
    \/ \E h \in CtxHandles : BufferMut(h) /\ Follow
    \/ \E h \in CtxHandles : Lookup("layout", "layouts", h) /\ Follow
    \/ \E h \in CtxHandles : Lookup("stage", "stages", h) /\ Follow
    \/ \E h \in CtxHandles : Lookup("shader", "shaders", h) /\ Follow
    \/ \E h \in CtxHandles : RenderTargetMut(h) /\ Follow
    \/ \E h \in CtxHandles : LayoutMut(h) /\ Follow
    \/ \E h \in CtxHandles : ShaderMut(h) /\ Follow

\* the same operations, with the handles of before a reset remembered
HistNext ==
    \/ Reset /\ Remember
    \/ \E t \in CtxHandles, s \in CtxHandles, l \in CtxHandles, r \in HistRanges :
          Draw(t, r.primitive, s, l, r.start, r.count) /\ Remember
    \/ \E d \in RenderTargets : CreateRenderTarget(d) /\ Remember
    \/ \E d \in Buffers : CreateBuffer(d) /\ Remember
    \/ \E d \in Stages : CreateStage(d) /\ Remember
    \/ \E d \in Shaders : CreateShader(d) /\ Remember
    \/ \E d \in Layouts : CreateLayout(d) /\ Remember
    \/ \E h \in CtxHandles : Lookup("render_target", "render_targets", h) /\ Remember
    \/ \E h \in CtxHandles : Lookup("buffer", "buffers", h) /\ Remember
    \/ \E h \in CtxHandles : Lookup("layout", "layouts", h) /\ Remember
    \/ \E h \in CtxHandles : Lookup("stage", "stages", h) /\ Remember
    \/ \E h \in CtxHandles : Lookup("shader", "shaders", h) /\ Remember
    \/ \E h \in CtxHandles : RenderTargetMut(h) /\ Remember
    \/ \E h \in CtxHandles : LayoutMut(h) /\ Remember
    \/ \E h \in CtxHandles : ShaderMut(h) /\ Remember

SpecContext == CtxInit /\ [][CtxNext]_vars

SpecHistory == CtxInit /\ [][HistNext]_vars

(***************************************************************************)
(* Driver of the create_* operations with layouts of several attribute     *)
(* sets and shaders of several stages.                                      *)
(***************************************************************************)
\* attribute sets of one layout
MaxSets == 2

\* stages of one shader
MaxStages == 2

\* 2^32, the smallest value that does not convert to u32
TooBigU32 == Wide(65536, 0)

\* BufferAttributes: one attribute, a buffer or none, a stride
AttributeSets ==
    {[attributes |-> <<[location |-> 0, local_offset |-> o]>>, buffer |-> b,
      offset |-> f, stride |-> s] :
        o \in {W(0), TooBigU32}, b \in {None} \cup {Some(h) : h \in CtxHandles},
        f \in {W(0), TooBig}, s \in {W(12), TooBig}}

\* VertexLayout descriptions of 1 to MaxSets attribute sets
SetLayouts ==
    {[attributes |-> a] : a \in UNION {[1..n -> AttributeSets] : n \in 1..MaxSets}}

\* shader::Shader descriptions of 1 to MaxStages stage handles
StageShaders ==
    {[stages |-> st, links |-> l] :
        st \in UNION {[1..n -> CtxHandles] : n \in 1..MaxStages}, l \in BOOLEAN}

CreateNext ==
    \/ Reset /\ Follow
    \/ \E d \in Buffers : CreateBuffer(d) /\ Follow
    \/ \E d \in Stages : CreateStage(d) /\ Follow
    \/ \E d \in StageShaders : CreateShader(d) /\ Follow
    \/ \E d \in SetLayouts : CreateLayout(d) /\ Follow

SpecCreate == CtxInit /\ [][CreateNext]_vars

(***************************************************************************)
(* Driver of the construction: a native context is given, Context::new is   *)
(* called on it once, and the Context it returns is used.                   *)
(***************************************************************************)
\* the versions a native context reports
Versions == {<<0, 0>>, <<3, 3>>, <<3, 9>>, <<4, 2>>, <<4, 3>>, <<5, 0>>}

\* the GL_VIEWPORT a native context reports: two window sizes, and a
\* negative width
NativeViewports == {<<0, 0, 800, 600>>, <<0, 0, 1024, 768>>, <<0, 0, -1, 600>>}

\* the native contexts handed to Context::new
GlContexts ==
    {[loaded |-> l, major |-> v[1], minor |-> v[2], viewport |-> d] :
        l \in BOOLEAN, v \in Versions, d \in NativeViewports}

\* a native context is given, Context::new was not called yet
NewInit ==
    /\ GvIdle
    /\ resources = <<>>
    /\ state = <<>>
    /\ calls = <<>>
    /\ result = <<>>
    /\ current = <<>>
    /\ old = <<>>
    /\ error_log = <<>>
    /\ polled = <<>>
    /\ arrived = <<>>
    /\ warnings = 0
    /\ gl_context \in GlContexts
    /\ viewport = <<>>
    /\ objects = NoObjects

\* a Context exists
Exists == resources # <<>>

\* Context::new(gl_context)
New ==
    /\ result = <<>>
    /\ LET r == ContextNew(gl_context)
       IN  /\ calls' = r.calls
           /\ result' = Result("new", r.ret)
           /\ IF r.ret = "Ok"
              THEN /\ resources' = r.value[1].resources
                   /\ state' = r.value[1].state
                   /\ error_log' = r.value[1].error_log
                   /\ viewport' = r.value[1].viewport
                   /\ current' = [render_target |-> None, layout |-> None, shader |-> None,
                                  repeated |-> FALSE]
              ELSE UNCHANGED <<resources, state, error_log, viewport, current>>
    /\ UNCHANGED <<gvVars, gl_context, objects, old, polled, arrived, warnings>>

\* Context::viewport
Viewport ==
    /\ result' = [Result("viewport", "Ok") EXCEPT !.made = Some(viewport)]
    /\ calls' = <<>>
    /\ UNCHANGED <<resources, state>>
    /\ UNCHANGED <<gvVars, hostVars, error_log>>

\* ctx.render_target_mut(handle).map(|rt| rt.set_viewport(new_viewport)); a
\* panic of set_viewport is caught by the caller (catch_unwind)
SetViewport(handle, new_viewport) ==
    /\ LET bound == bind_render_target(state, resources, handle)
           rt == lookup_mut(bound, resources.render_targets, handle)
       IN  /\ state' = bound.state
           /\ IF rt = None
              THEN /\ resources' = resources
                   /\ calls' = bound.calls
                   /\ result' = [Result("set_viewport", "None")
                                    EXCEPT !.arg = Some(handle), !.input = Some(new_viewport)]
              ELSE LET sv == set_viewport(rt[1], new_viewport, handle.index)
                   IN  /\ resources' = [resources EXCEPT !.render_targets =
                                           Assign(@, handle, sv.value)]
                       /\ calls' = bound.calls \o sv.calls
                       /\ result' = [Result("set_viewport", sv.ret)
                                        EXCEPT !.arg = Some(handle),
                                               !.input = Some(new_viewport)]
    /\ UNCHANGED <<gvVars, hostVars, error_log>>

NewNext ==
    \/ New
    \/ Exists /\ Viewport /\ Follow
    \/ Exists /\ Reset /\ Follow
    \/ Exists /\ \E d \in RenderTargets : CreateRenderTarget(d) /\ Follow
    \/ Exists /\ \E d \in Buffers : CreateBuffer(d) /\ Follow
    \/ Exists /\ \E d \in Stages : CreateStage(d) /\ Follow
    \/ Exists /\ \E d \in Shaders : CreateShader(d) /\ Follow
    \/ Exists /\ \E d \in Layouts : CreateLayout(d) /\ Follow
    \/ Exists /\ \E t \in CtxHandles, s \in CtxHandles, l \in CtxHandles, r \in HistRanges :
                    Draw(t, r.primitive, s, l, r.start, r.count) /\ Follow
    \/ Exists /\ \E h \in CtxHandles, v \in Viewports : SetViewport(h, v) /\ Follow

SpecNew == NewInit /\ [][NewNext]_vars

(***************************************************************************)
(* opengl.rs: the diagnostics buffer.  The driver reports a message by      *)
(* calling debug_callback with the buffer as user parameter.                *)
(***************************************************************************)
\* the ceiling of the buffer
LogCapacity == 20

\* the categories the callback buffers
Actionable ==
    {"DEBUG_TYPE_ERROR", "DEBUG_TYPE_UNDEFINED_BEHAVIOR", "DEBUG_TYPE_DEPRECATED_BEHAVIOR",
     "DEBUG_TYPE_PORTABILITY", "DEBUG_TYPE_PERFORMANCE"}

\* the category as the message text names it
KindStr(kind) ==
    IF kind = "DEBUG_TYPE_ERROR" THEN "ERROR"
    ELSE IF kind = "DEBUG_TYPE_DEPRECATED_BEHAVIOR" THEN "DEPRECATED"
    ELSE IF kind = "DEBUG_TYPE_UNDEFINED_BEHAVIOR" THEN "UNDEFINED BEHAVIOUR"
    ELSE IF kind = "DEBUG_TYPE_PORTABILITY" THEN "PORTABILITY"
    ELSE IF kind = "DEBUG_TYPE_PERFORMANCE" THEN "PERFORMANCE"
    ELSE "UNKNOWN"

\* format!("{id}: {kind_str} from {source}: {error_message}"), the message
\* number and the category kept
Format(id, kind) == [id |-> id, kind_str |-> KindStr(kind)]

\* debug_callback that buffers without a ceiling
debug_callback_unbounded(log, kind, id) ==
    IF kind \in Actionable
    THEN [error_log |-> Append(log, Format(id, kind)), warned |-> FALSE]
    ELSE [error_log |-> log, warned |-> FALSE]

\* debug_callback that buffers every category
debug_callback_any(log, kind, id) ==
    IF Len(log) >= LogCapacity
    THEN [error_log |-> log, warned |-> TRUE]
    ELSE [error_log |-> Append(log, Format(id, kind)), warned |-> FALSE]

\* debug_callback, after the message was logged at the level of its
\* severity: warned is the "error log filled, discarding new logs" warning
debug_callback(log, kind, id) ==
    IF Len(log) >= LogCapacity
    THEN [error_log |-> log, warned |-> TRUE]
    ELSE IF kind \in Actionable
         THEN [error_log |-> Append(log, Format(id, kind)), warned |-> FALSE]
         ELSE [error_log |-> log, warned |-> FALSE]

\* poll_errors that leaves the buffer as it is
poll_errors_keep(log) ==
    IF log = <<>>
    THEN [ret |-> None, error_log |-> log]
    ELSE [ret |-> Some(log), error_log |-> log]

\* poll_errors that returns the oldest message and empties the buffer
poll_errors_oldest(log) ==
    IF log = <<>>
    THEN [ret |-> None, error_log |-> log]
    ELSE [ret |-> Some(<<log[1]>>), error_log |-> <<>>]

\* Context::poll_errors
poll_errors(log) ==
    IF log = <<>>
    THEN [ret |-> None, error_log |-> log]
    ELSE [ret |-> Some(log), error_log |-> <<>>]

(***************************************************************************)
(* Driver of the diagnostics buffer: the driver reports messages, numbered  *)
(* in arrival order; the application polls and resets.                      *)
(***************************************************************************)
\* messages reported between two polls
MaxFed == 25

\* messages of another category than error between two polls
MaxVaried == 2

Kinds == Actionable \cup {"DEBUG_TYPE_MARKER", "DEBUG_TYPE_OTHER"}

\* the reported messages of another category than error
Varied(feed) == Len(SelectSeq(feed, LAMBDA m : m.kind # "DEBUG_TYPE_ERROR"))

\* the driver calls debug_callback
DebugCallback(kind, id) ==
    /\ Len(arrived) < MaxFed
    /\ kind = "DEBUG_TYPE_ERROR" \/ Varied(arrived) < MaxVaried
    /\ LET r == debug_callback(error_log, kind, id)
       IN  /\ error_log' = r.error_log
           /\ warnings' = warnings + (IF r.warned THEN 1 ELSE 0)
    /\ arrived' = Append(arrived, [id |-> id, kind |-> kind])
    /\ result' = Result("debug_callback", "Ok")
    /\ polled' = None
    /\ UNCHANGED <<gvVars, hostVars, resources, state, calls, current, old>>

\* Context::poll_errors
PollErrors ==
    /\ LET r == poll_errors(error_log)
       IN  /\ error_log' = r.error_log
           /\ polled' = r.ret
           /\ result' = Result("poll_errors", IF r.ret = None THEN "None" ELSE "Some")
    /\ calls' = <<>>
    \* the history restarts where the buffer was emptied
    /\ arrived' = IF error_log' = <<>> THEN <<>> ELSE arrived
    /\ warnings' = IF error_log' = <<>> THEN 0 ELSE warnings
    /\ UNCHANGED <<gvVars, hostVars, resources, state, current, old>>

\* the history restarts at a reset
Forget == arrived' = <<>> /\ warnings' = 0 /\ polled' = None /\ UNCHANGED <<current, old>>

LogNext ==
    \/ \E kind \in Kinds : DebugCallback(kind, Len(arrived) + 1)
    \/ PollErrors
    \/ Reset /\ Forget

SpecLog == CtxInit /\ [][LogNext]_vars

(***************************************************************************)
(* Driver of the diagnostics buffer with the callback inside the native    *)
(* calls of the operations: the driver reports a message while a create_*, *)
(* a bind or a draw is in one of its native calls. These operations never  *)
(* touch the buffer, so a message reported inside one is a callback step    *)
(* after it, before the next operation. poll_errors makes no native call;   *)
(* reset empties the buffer after its last native call, so what is reported *)
(* inside a reset is gone when it returns.                                  *)
(***************************************************************************)
\* messages reported between two polls
MaxAsyncFed == 3

\* the categories the driver reports here: one that is buffered, one that is not
AsyncKinds == {"DEBUG_TYPE_ERROR", "DEBUG_TYPE_OTHER"}

\* the handle the binds and draws use
AsyncHandle == Handle(0, 0)

\* the driver calls debug_callback from inside a native call of the last
\* operation
CallbackInside(kind) ==
    /\ calls # <<>>
    /\ result.op \notin {"reset", "poll_errors"}
    /\ Len(arrived) < MaxAsyncFed
    /\ DebugCallback(kind, Len(arrived) + 1)

AsyncNext ==
    \/ \E d \in Buffers : CreateBuffer(d) /\ Follow
    \/ \E d \in RenderTargets : CreateRenderTarget(d) /\ Follow
    \/ RenderTargetMut(AsyncHandle) /\ Follow
    \/ \E r \in HistRanges :
          Draw(AsyncHandle, r.primitive, AsyncHandle, AsyncHandle, r.start, r.count) /\ Follow
    \/ \E kind \in AsyncKinds : CallbackInside(kind)
    \/ PollErrors
    \/ Reset /\ Forget

SpecAsync == CtxInit /\ [][AsyncNext]_vars

(***************************************************************************)
(* Driver of the diagnostics buffer that remembers the resets: the history  *)
(* of reported messages runs on across a reset, which leaves a mark in it,  *)
(* so that the messages reported before and after the reset are told apart. *)
(***************************************************************************)
\* messages and resets between two polls
MaxResetFed == 5

\* the mark a reset leaves in the history
ResetMark == [id |-> 0, kind |-> "reset"]

RECURSIVE SinceReset(_)
\* the messages reported after the last reset of the history
SinceReset(feed) ==
    IF feed = <<>> THEN <<>>
    ELSE IF feed[Len(feed)] = ResetMark THEN <<>>
    ELSE Append(SinceReset(SubSeq(feed, 1, Len(feed) - 1)), feed[Len(feed)])

\* the driver calls debug_callback
CallbackAround(kind) ==
    /\ Len(arrived) < MaxResetFed
    /\ DebugCallback(kind, Len(arrived) + 1)

\* Context::reset, as run_tests calls it before every test
ResetBetween ==
    /\ Len(arrived) < MaxResetFed
    /\ Reset
    /\ arrived' = Append(arrived, ResetMark)
    /\ warnings' = 0
    /\ polled' = None
    /\ UNCHANGED <<current, old>>

ResetNext ==
    \/ \E kind \in AsyncKinds : CallbackAround(kind)
    \/ PollErrors
    \/ ResetBetween

SpecReset == CtxInit /\ [][ResetNext]_vars

(***************************************************************************)
(* vertex_layout.rs: the stride of an attribute set.                        *)
(***************************************************************************)
\* Components::count
count(components) ==
    IF components = "Scalar" THEN 1
    ELSE IF components = "Vec2" THEN 2
    ELSE IF components = "Vec3" THEN 3
    ELSE 4

\* AttributeKind::size: size_of::<f32>(), size_of::<u8>()
size(kind) == IF kind = "F32" THEN 4 ELSE 1

\* Iterator::sum over the mapped attributes
RECURSIVE Sum(_)
Sum(terms) == IF terms = <<>> THEN 0 ELSE Head(terms) + Sum(Tail(terms))

\* stride_bytes that leaves the element size out
stride_bytes_unsized(stride) ==
    IF stride.policy = "Bytes" THEN stride.bytes
    ELSE Sum([i \in 1..Len(stride.attr) |-> count(stride.attr[i].components)])

\* Stride::stride_bytes
stride_bytes(stride) ==
    IF stride.policy = "Bytes" THEN stride.bytes
    ELSE Sum([i \in 1..Len(stride.attr) |->
                 size(stride.attr[i].kind) * count(stride.attr[i].components)])

\* attributes of one interleaved set
MaxAttributes == 2

\* VertexAttribute; location, normalized and local_offset do not enter the
\* stride
VertexAttributes ==
    [location : {0}, components : {"Scalar", "Vec2", "Vec3", "Vec4"}, kind : {"F32", "U8"},
     normalized : {FALSE}, local_offset : {0}]

\* Stride::Bytes(n) and Stride::Interleaved(attributes)
Strides ==
    {[policy |-> "Bytes", bytes |-> n, attr |-> <<>>] : n \in {0, 12, 28}}
    \cup {[policy |-> "Interleaved", bytes |-> 0, attr |-> a] :
              a \in UNION {[1..n -> VertexAttributes] : n \in 0..MaxAttributes}}

\* a stride policy is given, no Context exists
StrideInit ==
    /\ GvIdle
    /\ resources = <<>>
    /\ state = <<>>
    /\ calls = <<>>
    /\ result \in {[Result("Stride", "none") EXCEPT !.input = Some(s)] : s \in Strides}
    /\ current = <<>>
    /\ old = <<>>
    /\ error_log = <<>>
    /\ polled = <<>>
    /\ arrived = <<>>
    /\ warnings = 0
    /\ gl_context = <<>>
    /\ viewport = <<>>
    /\ objects = <<>>

\* stride.stride_bytes()
StrideBytes ==
    /\ result.op = "Stride"
    /\ result' = [result EXCEPT !.op = "stride_bytes",
                                !.made = Some(stride_bytes(result.input[1]))]
    /\ UNCHANGED <<gvVars, hostVars, resources, state, calls, current, old, logVars>>

StrideNext == StrideBytes

SpecStride == StrideInit /\ [][StrideNext]_vars

C2_KeptHandleResolves ==
    \A e \in kept : get(storage, e.h) = Some(e.v)

\* C3: a remove whose handle is not valid (out of range, stale generation, or
\* value already removed and slot not reused) returns None and changes neither
\* the slots nor the free list.
C3_InvalidRemoveNoEffect ==
    [][(last'.op = "remove" /\ last'.arg # "valid")
          => (last'.ret = None /\ storage' = storage)]_vars

\* the slot a handle names exists, has the handle's generation, holds a value
SlotValid(gv, h) ==
    /\ h.index < Len(gv.values)
    /\ gv.values[h.index + 1].generation = h.generation
    /\ gv.values[h.index + 1].value # None

\* C4: get and get_mut return Some (of the slot's value) exactly when the index
\* is in range, the generations are equal and the slot holds a value, and None
\* in every other case.
C4_GetSomeIffValid ==
    \A h \in GvHandles :
        IF SlotValid(storage, h)
        THEN /\ get(storage, h) = storage.values[h.index + 1].value
             /\ get_mut(storage, h) = storage.values[h.index + 1].value
        ELSE /\ get(storage, h) = None
             /\ get_mut(storage, h) = None

\* C4 witness: the GenVec holds a valid handle, a stale one and one whose value
\* was removed, and a handle out of range exists.
C4_Witness ==
    /\ \E h \in GvHandles : HandleState(storage, h) = "valid" /\ get(storage, h) # None
    /\ \E h \in GvHandles : HandleState(storage, h) = "stale" /\ get(storage, h) = None
    /\ \E h \in GvHandles : HandleState(storage, h) = "removed" /\ get_mut(storage, h) = None
    /\ \E h \in GvHandles : HandleState(storage, h) = "out_of_range"


(***************************************************************************)
(* Claims about the Context.                                               *)
(***************************************************************************)
\* the operations that make a bind request for the handle they are given
MutOps == {"render_target_mut", "layout_mut", "shader_mut"}

MutPool(op) ==
    IF op = "render_target_mut" THEN "render_targets"
    ELSE IF op = "layout_mut" THEN "layouts" ELSE "shaders"

\* the native bind call of a bind slot
BindFn(slot) ==
    IF slot = "bound_render_target" THEN "RenderTargetBind"
    ELSE IF slot = "bound_layout" THEN "BindVertexArray" ELSE "UseProgram"

\* how many native binds of a slot a call sequence holds
NBinds(cs, slot) == Cardinality({i \in 1..Len(cs) : cs[i].fn = BindFn(slot)})

Resolves(pool, h) == get(resources[pool], h) # None

\* the viewport of a render target converts to the native i32 values
Converts(rt) == RenderTargetBind(rt, 0).ret = "Ok"

\* C5: a draw in which the render target, layout or shader handle does not
\* resolve returns ResourceNotFound and issues no native draw call, whatever
\* came before it. (A draw whose render target resolves to one with a viewport
\* that does not convert ends in ConversionFailed before the other handles
\* are looked at; it is left out here.)
C5_UnresolvedDrawFails ==
    (/\ result.op = "draw"
     /\ \/ ~Resolves("render_targets", result.target[1])
        \/ ~Resolves("layouts", result.layout[1])
        \/ ~Resolves("shaders", result.shader[1])
     /\ Resolves("render_targets", result.target[1])
           => Converts(get(resources.render_targets, result.target[1])[1]))
    => /\ result.ret = "ResourceNotFound"
       /\ \A i \in 1..Len(calls) : calls[i].fn # "DrawArrays"

\* C6: a bind request (render_target_mut, layout_mut, shader_mut) for a handle
\* that resolves issues no native call and leaves the cache alone when the
\* cache records the handle; otherwise it sets the cache to the handle and
\* issues the native bind of its slot once. The second of two such requests
\* in a row issues no native bind, so the pair issues at most one.
C6_BindOncePerHandle ==
    [][(result'.op \in MutOps /\ Resolves(MutPool(result'.op), result'.arg[1]))
        => LET h == result'.arg[1]
               pool == MutPool(result'.op)
               slot == Slot(pool)[1]
               obj == IF pool = "render_targets" THEN h.index
                      ELSE get(resources[pool], h)[1].id
           IN  /\ IF state[slot] = Some(h)
                  THEN calls' = <<>> /\ state' = state
                  ELSE /\ state' = [state EXCEPT ![slot] = Some(h)]
                       /\ NBinds(calls', slot) = 1
                       /\ \A i \in 1..Len(calls') :
                              calls'[i].fn = BindFn(slot) => calls'[i].obj = obj
               /\ (result.op = result'.op /\ result.arg = result'.arg)
                      => NBinds(calls', slot) = 0 /\ NBinds(calls, slot) <= 1]_vars

\* a second render_target_mut for a resolving handle that the first one bound
\* natively: the cache records it and nothing is issued
C6_Witness ==
    /\ result.op = "render_target_mut"
    /\ result.ret = "Some"
    /\ state.bound_render_target = result.arg
    /\ current.render_target = Some(result.arg[1].index)
    /\ calls = <<>>

\* C7: in the trace of native calls of any sequence of operations, the native
\* bind of a slot is never issued for the object that the latest native bind
\* of that slot made current.
C7_NoRepeatedNativeBind == ~current.repeated

\* C10: a create_* call that returns an error leaves the resource pools as
\* they were; a create_* call that returns a handle has filled exactly the slot
\* of that handle in its own pool, and left the other pools alone.
C10_FailedCreateLeavesNoTrace ==
    [][(result'.op \in {"create_buffer", "create_layout", "create_stage", "create_shader",
                        "create_render_target"})
        => IF result'.ret # "Ok"
           THEN resources' = resources /\ result'.made = None
           ELSE \E p \in Pools :
                    /\ \A q \in Pools \ {p} : resources'[q] = resources[q]
                    /\ Resolving(resources'[p]) = Resolving(resources[p]) \cup {result'.made[1]}
                    /\ result'.made[1] \notin Resolving(resources[p])
                    /\ \A h \in Resolving(resources[p]) :
                           get(resources'[p], h) = get(resources[p], h)]_vars

\* a failed create_* call in a context that holds a resource of that kind
C10_Witness ==
    \/ result.op = "create_layout" /\ result.ret = "ResourceNotFound"
          /\ Resolving(resources.layouts) # {}
    \/ result.op = "create_stage" /\ result.ret = "FailedToCompileShader"
          /\ Resolving(resources.stages) # {}

\* C8: a handle that a create_* call issued before a reset resolves in no
\* lookup after that reset, and a draw or *_mut lookup given it reports not
\* found, also after new resources of its kind were created.
C8_OldHandleNeverResolves ==
    old # None =>
        \A e \in old[1] :
            /\ get(resources[e.pool], e.h) = None
            /\ get_mut(resources[e.pool], e.h) = None
            /\ (result.op \in MutOps /\ MutPool(result.op) = e.pool /\ result.arg = Some(e.h))
                   => result.ret = "None"
            /\ (result.op = "draw"
                 /\ \/ e.pool = "render_targets" /\ result.target = Some(e.h)
                    \/ e.pool = "layouts" /\ result.layout = Some(e.h)
                    \/ e.pool = "shaders" /\ result.shader = Some(e.h))
                   => result.ret = "ResourceNotFound"

\* C9: a reset leaves all five pools empty and all three bind slots unbound;
\* after a reset, the first bind request of a slot (its cache is still empty)
\* for a handle that resolves issues the native bind of that slot and records
\* the handle, whatever the cache recorded before the reset.
C9_ResetUnbindsAll ==
    [][/\ result'.op = "reset"
          => /\ \A p \in Pools : resources'[p].values = <<>> /\ resources'[p].free = <<>>
             /\ state'.bound_render_target = None
             /\ state'.bound_layout = None
             /\ state'.bound_shader = None
       /\ (/\ old # None
           /\ result'.op \in MutOps
           /\ Resolves(MutPool(result'.op), result'.arg[1])
           /\ state[Slot(MutPool(result'.op))[1]] = None)
          => /\ NBinds(calls', Slot(MutPool(result'.op))[1]) = 1
             /\ state'[Slot(MutPool(result'.op))[1]] = result'.arg
       /\ (/\ old # None
           /\ result'.op = "draw"
           /\ Resolves("render_targets", result'.target[1])
           /\ state.bound_render_target = None)
          => /\ NBinds(calls', "bound_render_target") = 1
             /\ state'.bound_render_target = result'.target]_vars

\* after a reset, a *_mut lookup of a handle value that the bind state recorded
\* when the reset came, and that resolves again, issues the native bind
C9_Witness ==
    /\ old # None
    /\ result.op \in MutOps
    /\ result.ret = "Some"
    /\ \E e \in old[1] : e.bound /\ e.pool = MutPool(result.op) /\ result.arg = Some(e.h)
    /\ NBinds(calls, Slot(MutPool(result.op))[1]) = 1

\* C11: create_render_target with a viewport of which x, y, width or height
\* does not convert to i32 returns ConversionFailed and creates no render
\* target.
C11_UnconvertibleViewportRejected ==
    /\ (result.op = "create_render_target" /\ ~Converts(result.input[1]))
          => result.ret = "ConversionFailed" /\ result.made = None
    /\ \A h \in Resolving(resources.render_targets) :
          Converts(get(resources.render_targets, h)[1])

\* a usize value is larger than 2^31 - 1
Exceeds(w) == w.hi >= 32768

DrawResolves ==
    /\ Resolves("render_targets", result.target[1])
    /\ Resolves("layouts", result.layout[1])
    /\ Resolves("shaders", result.shader[1])

\* C13: a draw whose three handles resolve and whose start or count is larger
\* than 2^31 - 1 returns ConversionFailed, issues no native draw call and
\* leaves the three bind slots set to the handles of this draw.
C13_DrawRangeChecked ==
    (/\ result.op = "draw"
     /\ DrawResolves
     /\ Exceeds(result.input[1].start) \/ Exceeds(result.input[1].count))
    => /\ result.ret = "ConversionFailed"
       /\ \A i \in 1..Len(calls) : calls[i].fn # "DrawArrays"
       /\ state.bound_render_target = result.target
       /\ state.bound_layout = result.layout
       /\ state.bound_shader = result.shader

\* C14: a draw whose three handles resolve and whose start and count are at
\* most 2^31 - 1 returns Ok and issues exactly one gl::DrawArrays, as the last
\* native call, with the requested topology and the caller's start and count.
C14_DrawIssuesOneCall ==
    (/\ result.op = "draw"
     /\ DrawResolves
     /\ ~Exceeds(result.input[1].start)
     /\ ~Exceeds(result.input[1].count))
    => /\ result.ret = "Ok"
       /\ Cardinality({i \in 1..Len(calls) : calls[i].fn = "DrawArrays"}) = 1
       /\ calls[Len(calls)] =
             [fn |-> "DrawArrays", obj |-> 0,
              mode |-> IF result.input[1].primitive = "Triangles"
                       THEN "TRIANGLES" ELSE "TRIANGLE_STRIP",
              first |-> result.input[1].start.hi * 65536 + result.input[1].start.lo,
              count |-> result.input[1].count.hi * 65536 + result.input[1].count.lo]

(***************************************************************************)
(* Claims about the diagnostics buffer.                                     *)
(***************************************************************************)
\* the actionable messages reported since the buffer was last emptied
ArrivedActionable == SelectSeq(arrived, LAMBDA m : m.kind \in Actionable)

\* C15: when only actionable messages were reported since the buffer was last
\* emptied and more of them than the capacity, the "error log filled" warning
\* was logged exactly once.
C15_FullWarningOnce ==
    (/\ Len(ArrivedActionable) = Len(arrived)
     /\ Len(arrived) > LogCapacity)
    => warnings = 1

\* C16: poll_errors returns None exactly when the buffer is empty, otherwise
\* the buffered messages in their order, and leaves the buffer empty; a
\* poll_errors right after a poll_errors returns None.
C16_PollReturnsAndClears ==
    [][result'.op = "poll_errors"
       => /\ polled' = (IF error_log = <<>> THEN None ELSE Some(error_log))
          /\ (polled' = None) <=> (error_log = <<>>)
          /\ error_log' = <<>>
          /\ result.op = "poll_errors" => polled' = None]_vars

\* C16 witness: a poll returned two or more buffered messages and the buffer
\* is empty.
C16_Witness ==
    /\ result.op = "poll_errors"
    /\ polled # None
    /\ Len(polled[1]) >= 2
    /\ error_log = <<>>

\* the first n elements of a sequence, all of it when it is shorter
Take(seq, n) == SubSeq(seq, 1, IF Len(seq) < n THEN Len(seq) ELSE n)

\* C17: the buffer never holds more than 20 messages, and it holds the first
\* 20 actionable messages reported since it was last emptied, in arrival
\* order; the later ones are dropped.
C17_FirstTwentyRetained ==
    /\ Len(error_log) <= 20
    /\ LET first == Take(ArrivedActionable, 20)
       IN  error_log = [i \in 1..Len(first) |-> Format(first[i].id, first[i].kind)]

\* C17 witness: more actionable messages than the capacity were reported and
\* the buffer holds 20.
C17_Witness ==
    /\ Len(ArrivedActionable) > 20
    /\ Len(error_log) = 20

\* C18: a callback changes the buffer only by appending its message, and only
\* when the category is error, undefined behaviour, deprecated behaviour,
\* portability or performance.
C18_OnlyActionableBuffered ==
    [][result'.op = "debug_callback"
       => LET m == arrived'[Len(arrived')]
          IN  IF m.kind \in Actionable
              THEN error_log' \in {error_log, Append(error_log, Format(m.id, m.kind))}
              ELSE error_log' = error_log]_vars

\* C18 witness: a message of another category was reported to a buffer that
\* has room, and the buffer holds the actionable messages only.
C18_Witness ==
    /\ result.op = "debug_callback"
    /\ arrived # <<>>
    /\ arrived[Len(arrived)].kind \notin Actionable
    /\ error_log # <<>>
    /\ Len(error_log) < LogCapacity
    /\ Len(error_log) = Len(ArrivedActionable)

(***************************************************************************)
(* Claims about the stride.                                                 *)
(***************************************************************************)
\* bytes of one element and number of components, as the layout model
\* states them
ElementBytes == [F32 |-> 4, U8 |-> 1]

ComponentCount == [Scalar |-> 1, Vec2 |-> 2, Vec3 |-> 3, Vec4 |-> 4]

\* parts[1] + ... + parts[n]
RECURSIVE Total(_, _)
Total(parts, n) == IF n = 0 THEN 0 ELSE Total(parts, n - 1) + parts[n]

\* the interleaved set of a 3-component float and a 4-component float
PositionColor ==
    [policy |-> "Interleaved", bytes |-> 0,
     attr |-> <<[location |-> 0, components |-> "Vec3", kind |-> "F32",
                 normalized |-> FALSE, local_offset |-> 0],
                [location |-> 0, components |-> "Vec4", kind |-> "F32",
                 normalized |-> FALSE, local_offset |-> 0]>>]

\* C19: the stride of Bytes(n) is n; the stride of Interleaved is the sum,
\* over its attributes, of element size (F32 4, U8 1) times component count
\* (1 to 4); a 3-component float plus a 4-component float gives 28.
C19_StrideBytes ==
    result.op = "stride_bytes"
    => LET stride == result.input[1]
           bytes == result.made[1]
           parts == [i \in 1..Len(stride.attr) |->
                        ElementBytes[stride.attr[i].kind]
                        * ComponentCount[stride.attr[i].components]]
       IN  /\ stride.policy = "Bytes" => bytes = stride.bytes
           /\ stride.policy = "Interleaved" =>
                 bytes = Total(parts, Len(parts))
           /\ stride = PositionColor => bytes = 28

\* C19 witness: the stride of a 3-component float plus a 4-component float
\* was computed and is 28.
C19_Witness ==
    /\ result.op = "stride_bytes"
    /\ result.input[1] = PositionColor
    /\ result.made[1] = 28

(***************************************************************************)
(* Claims about create_layout and create_shader with unresolved handles.    *)
(***************************************************************************)
\* the attribute sets of a layout description whose buffer does not resolve
UnresolvedSets(layout, buffers) ==
    {i \in 1..Len(layout.attributes) :
        /\ layout.attributes[i].buffer # None
        /\ get(buffers, layout.attributes[i].buffer[1]) = None}

\* the attribute sets a trace of native calls has bound a buffer for
BoundSets(cs) == {cs[i].first + 1 : i \in {k \in 1..Len(cs) : cs[k].fn = "BindVertexBuffer"}}

\* the stage handles of a shader description that do not resolve
UnresolvedStages(shader, stages) ==
    {i \in 1..Len(shader.stages) : get(stages, shader.stages[i]) = None}

\* no conversion fails before the walk reaches attribute set first: every
\* local offset converts, and so do the offset and the stride of every
\* earlier set that names a buffer
ConvertsUpTo(layout, first) ==
    /\ \A i \in 1..Len(layout.attributes) :
          \A k \in 1..Len(layout.attributes[i].attributes) :
              TryIntoU32(layout.attributes[i].attributes[k].local_offset) # None
    /\ \A i \in 1..(first - 1) :
          layout.attributes[i].buffer # None
              => /\ TryIntoGLintptr(layout.attributes[i].offset) # None
                 /\ TryIntoI32(layout.attributes[i].stride) # None

\* the smallest element of a non-empty set of numbers
Least(S) == CHOOSE i \in S : \A j \in S : i <= j

\* a create_* step that failed without inserting
NothingInserted == result'.made = None /\ resources' = resources

\* C20 as stated: create_layout with an attribute set whose buffer does not
\* resolve, and create_shader with a stage that does not resolve, return
\* ResourceNotFound, insert nothing and bind no buffer for the unresolved set.
C20_UnresolvedIsNotFound ==
    [][/\ (/\ result'.op = "create_layout"
           /\ UnresolvedSets(result'.input[1], resources.buffers) # {})
          => /\ result'.ret = "ResourceNotFound"
             /\ NothingInserted
             /\ BoundSets(calls') \cap UnresolvedSets(result'.input[1], resources.buffers) = {}
       /\ (/\ result'.op = "create_shader"
           /\ UnresolvedStages(result'.input[1], resources.stages) # {})
          => /\ result'.ret = "ResourceNotFound"
             /\ NothingInserted]_vars

\* C20 amended: create_layout with an attribute set whose buffer does not
\* resolve returns ResourceNotFound when no conversion fails before the walk
\* reaches the first such set, and ConversionFailed otherwise; create_shader
\* with a stage that does not resolve returns ResourceNotFound; in each case
\* nothing is inserted and no buffer is bound for an unresolved set.
C20_UnresolvedFailsFirstErrorWins ==
    [][/\ (/\ result'.op = "create_layout"
           /\ UnresolvedSets(result'.input[1], resources.buffers) # {})
          => LET unresolved == UnresolvedSets(result'.input[1], resources.buffers)
             IN  /\ result'.ret = (IF ConvertsUpTo(result'.input[1], Least(unresolved))
                                   THEN "ResourceNotFound" ELSE "ConversionFailed")
                 /\ NothingInserted
                 /\ BoundSets(calls') \cap unresolved = {}
       /\ (/\ result'.op = "create_shader"
           /\ UnresolvedStages(result'.input[1], resources.stages) # {})
          => /\ result'.ret = "ResourceNotFound"
             /\ NothingInserted]_vars

\* C20 witness: a create_layout bound the buffer of its first attribute set,
\* found the buffer of its second unresolved and returned ResourceNotFound.
C20_Witness ==
    /\ result.op = "create_layout"
    /\ result.ret = "ResourceNotFound"
    /\ result.made = None
    /\ UnresolvedSets(result.input[1], resources.buffers) = {2}
    /\ BoundSets(calls) = {1}

(***************************************************************************)
(* Further claims about the GenVec.                                         *)
(***************************************************************************)
\* C23: a write through get_mut(h) leaves h as it is: get(h) returns the
\* written value, h is still the handle of its slot, and get of every other
\* handle returns what it returned before.
C23_GetMutKeepsHandle ==
    [][(last'.op = "get_mut" /\ last'.ret # None)
        => LET w == last'.ret[1]
           IN  /\ get(storage', w.handle) = Some(w.to)
               /\ HandleState(storage', w.handle) = "valid"
               /\ \A k \in GvHandles \ {w.handle} : get(storage', k) = get(storage, k)
               /\ storage'.free = storage.free]_vars

\* C23 witness: a value was changed through get_mut while another handle
\* resolves too.
C23_Witness ==
    /\ last.op = "get_mut"
    /\ last.ret # None
    /\ last.ret[1].from # last.ret[1].to
    /\ get(storage, last.ret[1].handle) = Some(last.ret[1].to)
    /\ \E k \in GvHandles \ {last.ret[1].handle} : get(storage, k) # None

\* the 0-based indices on the free list
FreeIndices(gv) == {gv.free[i] : i \in 1..Len(gv.free)}

\* the 0-based indices of the slots that hold no value
EmptySlots(gv) == {i - 1 : i \in {k \in 1..Len(gv.values) : gv.values[k].value = None}}

\* C27: a slot index is on the free list if and only if the slot holds no
\* value.
C27_FreeIffEmpty == FreeIndices(storage) = EmptySlots(storage)

\* C28: a remove that returns a value leaves the slot without value, with a
\* generation greater than the handle's, and with its index pushed onto the
\* free list.
C28_RemoveBumpsGeneration ==
    [][(last'.op = "remove" /\ last'.ret # None)
        => \E i \in 1..Len(storage.values) :
              /\ get(storage, Handle(i - 1, storage.values[i].generation)) = last'.ret
              /\ storage'.values[i].value = None
              /\ storage'.free = Append(storage.free, i - 1)
              /\ storage'.values[i].generation > storage.values[i].generation]_vars

(***************************************************************************)
(* Claims about the construction and the viewport of the Context.           *)
(***************************************************************************)
\* the native context loaded and reports version 4.3 or later
Supported(context) ==
    /\ context.loaded
    /\ context.major > 4 \/ (context.major = 4 /\ context.minor >= 3)

\* C21: after Context::new a Context exists only when the entry points loaded
\* and the version is at least 4.3; when loading failed or the version is
\* lower, Context::new returned InvalidContext and no Context exists.
C21_NewNeedsVersion43 ==
    /\ Exists => Supported(gl_context)
    /\ (result # <<>> /\ ~Supported(gl_context))
           => /\ result.op = "new"
              /\ result.ret = "InvalidContext"
              /\ ~Exists
              /\ viewport = <<>>

\* C21 witness: Context::new refused a native context that loaded, of
\* version 3.9 or 4.2.
C21_Witness ==
    /\ result # <<>>
    /\ result.op = "new"
    /\ result.ret = "InvalidContext"
    /\ gl_context.loaded
    /\ <<gl_context.major, gl_context.minor>> \in {<<3, 9>>, <<4, 2>>}
    /\ ~Exists

\* the rectangle a native context reports, as a URect
Reported(context) ==
    [x |-> W(context.viewport[1]), y |-> W(context.viewport[2]),
     width |-> W(context.viewport[3]), height |-> W(context.viewport[4])]

\* C22: while a Context exists, viewport() returns the rectangle the native
\* context reported at construction, whatever reset, create_*, draw and
\* set_viewport calls were made.
C22_ViewportIsWindowSize ==
    Exists => /\ viewport = Reported(gl_context)
              /\ result.op = "viewport" => result.made = Some(Reported(gl_context))

\* C22 witness: viewport() was called while a render target of another
\* viewport is the one bound natively.
C22_Witness ==
    /\ Exists
    /\ result.op = "viewport"
    /\ result.made = Some(viewport)
    /\ current.render_target # None
    /\ \E h \in Resolving(resources.render_targets) :
          /\ h.index = current.render_target[1]
          /\ get(resources.render_targets, h)[1].viewport # viewport

\* C24: no operation ends in a panic; a set_viewport given a component larger
\* than 2^31 - 1 returns to its caller.
C24_NoPanic == Exists => result.ret # "panic"

(***************************************************************************)
(* Claims about the lookups and the bind state.                             *)
(***************************************************************************)
\* the lookups by shared reference, and buffer_mut
PlainLookups == {"render_target", "buffer", "buffer_mut", "layout", "stage", "shader"}

\* no native bind call in a call sequence
NoBind(cs) ==
    \A i \in 1..Len(cs) : cs[i].fn \notin {"RenderTargetBind", "BindVertexArray", "UseProgram"}

\* C25 as stated: a lookup through <kind>(handle) or <kind>_mut(handle)
\* changes no bind-state slot and issues no native bind call.
C25_LookupsBypassBindState ==
    [][result'.op \in PlainLookups \cup MutOps
        => state' = state /\ NoBind(calls')]_vars

\* C25 amended: a lookup through <kind>(handle), for every kind, and through
\* buffer_mut(handle) changes no bind-state slot, issues no native call and
\* changes no pool; layout_mut, shader_mut and render_target_mut go through
\* the bind state of their own slot, and leave the two other slots and the
\* pools alone.
C25_PlainLookupsBypassBindState ==
    [][/\ result'.op \in PlainLookups
          => /\ state' = state
             /\ calls' = <<>>
             /\ resources' = resources
             /\ current' = [current EXCEPT !.repeated = FALSE]
       /\ result'.op \in MutOps
          => /\ \A slot \in DOMAIN state \ {Slot(MutPool(result'.op))[1]} :
                    state'[slot] = state[slot]
             /\ resources' = resources]_vars

\* C25 witness: shader(handle) returned a shader while no shader is bound.
C25_Witness ==
    /\ result.op = "shader"
    /\ result.ret = "Some"
    /\ state.bound_shader = None
    /\ current.shader = None

\* the name of a pool's slot among the natively current objects
CurrentSlot(pool) ==
    IF pool = "render_targets" THEN "render_target"
    ELSE IF pool = "layouts" THEN "layout" ELSE "shader"

\* the object the native layer knows a resource by: the slot index for a
\* render target, the native id otherwise
NativeObject(pool, h) ==
    IF pool = "render_targets" THEN h.index ELSE get(resources[pool], h)[1].id

\* C26: layout_mut, shader_mut and render_target_mut return Some exactly when
\* the handle resolves; when they return Some, the bind slot records the
\* handle and the resource is the natively current one of that slot.
C26_MutLookupBinds ==
    result.op \in MutOps
    => LET pool == MutPool(result.op)
           h == result.arg[1]
       IN  /\ (result.ret = "Some") <=> Resolves(pool, h)
           /\ result.ret = "Some"
                 => /\ state[Slot(pool)[1]] = Some(h)
                    /\ current[CurrentSlot(pool)] = Some(NativeObject(pool, h))

\* the pools whose resources the bind state tracks
BoundPools == {"render_targets", "layouts", "shaders"}

\* C29: in every reachable state, a bind-state slot that records a handle
\* records the resource the native context has bound for that slot: the
\* handle resolves in its pool and its resource is the one most recently
\* bound natively.
C29_SlotsMirrorNativeBinds ==
    \A pool \in BoundPools :
        state[Slot(pool)[1]] # None
        => LET h == state[Slot(pool)[1]][1]
           IN  /\ Resolves(pool, h)
               /\ current[CurrentSlot(pool)] = Some(NativeObject(pool, h))

\* the place of a native call in a draw: the render target's bind (with the
\* viewport and scissor it sets), the layout's, the shader's, then the draw
\* call
Rank(c) ==
    IF c.fn \in {"RenderTargetBind", "Viewport", "Scissor"} THEN 1
    ELSE IF c.fn = "BindVertexArray" THEN 2
    ELSE IF c.fn = "UseProgram" THEN 3
    ELSE IF c.fn = "DrawArrays" THEN 4
    ELSE 0

\* C30: within one draw the native binds are issued in the order render
\* target, layout, shader, each at most once, and the native draw call comes
\* after all of them: no bind of a later slot precedes a bind of an earlier one.
C30_DrawBindOrder ==
    result.op = "draw"
    => /\ \A i \in 1..Len(calls) : Rank(calls[i]) > 0
       /\ \A i \in 1..Len(calls) : \A j \in 1..Len(calls) :
              i < j => /\ Rank(calls[i]) <= Rank(calls[j])
                       /\ calls[i].fn # calls[j].fn

\* a draw that issued all three binds and the draw call
C30_Witness ==
    /\ result.op = "draw"
    /\ result.ret = "Ok"
    /\ {Rank(calls[i]) : i \in 1..Len(calls)} = {1, 2, 3, 4}

(***************************************************************************)
(* Further claims about draw.                                              *)
(***************************************************************************)
\* the bind of a slot fails for a handle: the slot does not record the handle
\* already, and the handle does not resolve (or, for a render target, resolves
\* to one whose viewport does not convert)
BindFails(st, pool, h) ==
    /\ st[Slot(pool)[1]] # Some(h)
    /\ \/ ~Resolves(pool, h)
       \/ pool = "render_targets" /\ ~Converts(get(resources[pool], h)[1])

\* C31: when a bind fails during draw, the slots bound earlier in the order
\* keep their new handles and the slots later in the order are left as they
\* were, with no native bind issued for them: a failing render target leaves
\* the layout and shader slots alone, a failing layout leaves the shader slot
\* alone and the render target slot on the draw's render target, a failing
\* shader leaves the render target and layout slots on the draw's handles.
C31_FailedBindNoRollback ==
    [][result'.op = "draw"
        => LET t == result'.target[1]
               l == result'.layout[1]
               s == result'.shader[1]
           IN  IF BindFails(state, "render_targets", t)
               THEN /\ result'.ret # "Ok"
                    /\ state'.bound_layout = state.bound_layout
                    /\ state'.bound_shader = state.bound_shader
                    /\ NBinds(calls', "bound_layout") = 0
                    /\ NBinds(calls', "bound_shader") = 0
               ELSE IF BindFails(state, "layouts", l)
               THEN /\ result'.ret # "Ok"
                    /\ state'.bound_render_target = Some(t)
                    /\ state'.bound_shader = state.bound_shader
                    /\ NBinds(calls', "bound_shader") = 0
               ELSE BindFails(state, "shaders", s)
                    => /\ result'.ret # "Ok"
                       /\ state'.bound_render_target = Some(t)
                       /\ state'.bound_layout = Some(l)]_vars

\* C31 witness: a draw bound its render target natively, failed on its layout
\* and left the shader slot, which does not record the draw's shader
C31_Witness ==
    /\ result.op = "draw"
    /\ result.ret = "ResourceNotFound"
    /\ NBinds(calls, "bound_render_target") = 1
    /\ state.bound_render_target = result.target
    /\ ~Resolves("layouts", result.layout[1])
    /\ state.bound_shader # result.shader

(***************************************************************************)
(* Growth and reuse in the GenVec.                                         *)
(***************************************************************************)
\* C32: insert pushes a new slot only when the free list is empty and
\* otherwise fills the index on top of the free list, leaving the number of
\* slots as it is; the number of slots never exceeds the largest number of
\* values the GenVec held at the same time.
C32_SlotsBoundedByPeak ==
    [][last'.op = "insert"
        => /\ IF storage.free = <<>>
              THEN /\ Len(storage'.values) = Len(storage.values) + 1
                   /\ last'.ret[1].index = Len(storage.values)
              ELSE /\ Len(storage'.values) = Len(storage.values)
                   /\ last'.ret[1].index = storage.free[Len(storage.free)]
           /\ Len(storage'.values) <= peak']_vars

\* C32 witness: after more inserts than there are slots, an insert filled a
\* freed index and the slots are as many as the values ever held at once
C32_Witness ==
    /\ last.op = "insert"
    /\ Len(storage.values) >= 2
    /\ Inserts(storage.values) > Len(storage.values)
    /\ peak = Len(storage.values)
    /\ Occupied(storage) < peak

\* C33: insert never fails: it returns a valid handle in every reachable
\* state, also when the generation of the slot it refills is at the maximum
\* of the counter, and it makes no handle valid that was invalid before.
C33_InsertNeverFails ==
    [][last'.op \in {"insert", "insert_panic"}
        => /\ last'.op = "insert"
           /\ last'.ret # None
           /\ HandleState(storage', last'.ret[1]) = "valid"
           /\ \A k \in dead : HandleState(storage', k) # "valid"]_vars

(***************************************************************************)
(* Conversions of create_layout.                                           *)
(***************************************************************************)
\* the byte offset and the stride of an attribute set both fit
Fits32(set) == TryIntoGLintptr(set.offset) # None /\ TryIntoI32(set.stride) # None

\* the attribute sets of a layout description whose offset or stride does not
\* fit the native width
UnfitSets(layout) == {i \in 1..Len(layout.attributes) : ~Fits32(layout.attributes[i])}

\* the attribute sets of a layout description at which the walk of set_buffers
\* ends: they name a buffer that does not resolve, or one that resolves with
\* an offset or a stride that does not fit
StoppingSets(layout, buffers) ==
    {i \in 1..Len(layout.attributes) :
        /\ layout.attributes[i].buffer # None
        /\ \/ get(buffers, layout.attributes[i].buffer[1]) = None
           \/ ~Fits32(layout.attributes[i])}

\* every local offset of a layout description converts
LocalOffsetsConvert(layout) ==
    \A i \in 1..Len(layout.attributes) :
        \A k \in 1..Len(layout.attributes[i].attributes) :
            TryIntoU32(layout.attributes[i].attributes[k].local_offset) # None

\* the text of the conversion error of an attribute set: the offset is
\* converted before the stride
Offending(set) ==
    IF TryIntoGLintptr(set.offset) = None THEN "buffer offset wraps"
    ELSE "buffer stride wraps"

\* C34 as stated: create_layout with an attribute set whose byte offset or
\* stride does not fit the native width returns ConversionFailed naming the
\* field (the offset before the stride), and issues no bind-vertex-buffer call
\* for that set.
C34_UnfitIsConversionFailed ==
    [][(/\ result'.op = "create_layout"
        /\ UnfitSets(result'.input[1]) # {})
        => LET unfit == UnfitSets(result'.input[1])
           IN  /\ result'.ret = "ConversionFailed"
               /\ result'.what = Offending(result'.input[1].attributes[Least(unfit)])
               /\ BoundSets(calls') \cap unfit = {}]_vars

\* C34 amended: create_layout never issues a bind-vertex-buffer call for an
\* attribute set whose byte offset or stride does not fit. It returns
\* ConversionFailed naming the field (the offset before the stride) when every
\* local offset converts and the first attribute set at which the walk ends
\* names a buffer that resolves: then the sets before it that name a buffer
\* are bound, no later set is, and nothing is inserted. An attribute set that
\* names no buffer is passed over, whatever its offset and stride.
C34_FirstUnfitBoundSetFails ==
    [][result'.op = "create_layout"
        => LET layout == result'.input[1]
               stop == StoppingSets(layout, resources.buffers)
           IN  /\ BoundSets(calls') \cap UnfitSets(layout) = {}
               /\ (/\ LocalOffsetsConvert(layout)
                   /\ stop # {}
                   /\ get(resources.buffers, layout.attributes[Least(stop)].buffer[1]) # None)
                  => /\ result'.ret = "ConversionFailed"
                     /\ result'.what = Offending(layout.attributes[Least(stop)])
                     /\ BoundSets(calls')
                            = {i \in 1..(Least(stop) - 1) : layout.attributes[i].buffer # None}
                     /\ NothingInserted
               /\ (LocalOffsetsConvert(layout) /\ stop = {}) => result'.ret = "Ok"]_vars

\* C34 witness: a create_layout bound the buffer of its first attribute set
\* and failed on the offset of its second, whose stride does not fit either
C34_Witness ==
    /\ result.op = "create_layout"
    /\ result.ret = "ConversionFailed"
    /\ result.what = "buffer offset wraps"
    /\ Len(result.input[1].attributes) = 2
    /\ TryIntoI32(result.input[1].attributes[2].stride) = None
    /\ BoundSets(calls) = {1}
    /\ result.made = None

(***************************************************************************)
(* Release of native objects.                                              *)
(***************************************************************************)
\* the native objects the handles of a pool resolve to
Pooled(pool, kind) ==
    {[kind |-> kind, id |-> get(resources[pool], h)[1].id] : h \in Resolving(resources[pool])}

\* C35: every native buffer and vertex array object that was generated is
\* deleted once: no delete names an object that is not alive, and the alive
\* objects are exactly those the handles of the buffer and layout pools
\* resolve to. So an object whose creation failed is deleted in the same
\* call, none is deleted while its handle resolves, and after a reset none is
\* alive.
C35_ReleasedExactlyOnce ==
    Exists
    => /\ ~objects.stray
       /\ objects.alive = Pooled("buffers", "buffer") \cup Pooled("layouts", "layout")
       /\ result.op = "reset" => objects.alive = {}

\* C35 witness: a reset deleted a buffer and a vertex array, and nothing is
\* alive
C35_Witness ==
    /\ result.op = "reset"
    /\ \E i \in 1..Len(calls) : calls[i].fn = "DeleteBuffers"
    /\ \E i \in 1..Len(calls) : calls[i].fn = "DeleteVertexArrays"
    /\ objects.alive = {}
    /\ ~objects.stray

(***************************************************************************)
(* The diagnostics buffer with callbacks inside native calls.              *)
(***************************************************************************)
\* the messages of a feed that a buffer, empty before it, accepted: the first
\* LogCapacity actionable ones, as the buffer holds them
Accepted(feed) ==
    LET first == Take(SelectSeq(feed, LAMBDA m : m.kind \in Actionable), LogCapacity)
    IN  [i \in 1..Len(first) |-> Format(first[i].id, first[i].kind)]

\* C36: with the callback firing inside the native calls of create_*, bind and
\* draw, and poll_errors making no native call, the buffer holds every message
\* accepted since it was last emptied, once and in arrival order; poll_errors
\* returns exactly these and empties the buffer, so no later poll_errors
\* returns them again. (A reset empties the buffer unreturned.)
C36_AcceptedPolledOnce ==
    [][/\ result'.op = "poll_errors"
          => /\ polled' = (IF Accepted(arrived) = <<>> THEN None ELSE Some(Accepted(arrived)))
             /\ error_log' = <<>>
       /\ result'.op \notin {"poll_errors", "reset"}
          => error_log' = Accepted(arrived')]_vars

\* C36 witness: poll_errors returned two messages that were reported inside
\* the native calls of the operation that created the buffer of the pool
C36_Witness ==
    /\ result.op = "poll_errors"
    /\ polled # None
    /\ Len(polled[1]) = 2
    /\ polled[1][1] # polled[1][2]
    /\ Resolving(resources.buffers) # {}
    /\ NBinds(calls, "bound_layout") = 0

\* the handles insert has returned so far
Issued == {e.h : e \in live} \cup dead

\* C37: a handle returned by insert differs, in index or generation, from
\* every handle the GenVec returned before; so of the handles issued for one
\* slot at most one is valid.
C37_InsertReturnsFreshHandle ==
    [][last'.op = "insert"
        => /\ last'.ret[1] \notin Issued
           /\ \A h \in Issued \cup {last'.ret[1]} : \A k \in Issued \cup {last'.ret[1]} :
                  (/\ h.index = k.index
                   /\ HandleState(storage', h) = "valid"
                   /\ HandleState(storage', k) = "valid") => h = k]_vars

(***************************************************************************)
(* reset and the diagnostics buffer.                                        *)
(***************************************************************************)
\* C38: reset empties the diagnostics buffer, so the messages that arrived
\* before it and were not polled are discarded: a poll_errors after a reset
\* returns only messages that arrived after the reset, and None if no
\* actionable message arrived after it.
C38_ResetDiscardsUnpolled ==
    [][/\ result'.op = "reset" => error_log' = <<>>
       /\ result'.op = "poll_errors"
          => IF Accepted(SinceReset(arrived)) = <<>>
             THEN polled' = None
             ELSE /\ polled' # None
                  /\ \A i \in 1..Len(polled'[1]) :
                         \E k \in 1..Len(Accepted(SinceReset(arrived))) :
                             polled'[1][i] = Accepted(SinceReset(arrived))[k]]_vars

\* C38 witness: an error was reported and not polled, reset ran, another
\* error was reported, and the buffer holds the second one only
C38_Witness ==
    /\ result.op = "debug_callback"
    /\ \E i \in 2..Len(arrived) :
           /\ arrived[i] = ResetMark
           /\ arrived[i - 1].kind \in Actionable
    /\ Len(SinceReset(arrived)) = 1
    /\ SinceReset(arrived)[1].kind \in Actionable
    /\ poll_errors(error_log).ret = Some(Accepted(SinceReset(arrived)))

====
